---- MODULE Spec2Model ----
(***************************************************************************)
(* Model of the Snowflake analytics dashboard: the query executor          *)
(* (core/query_executor.py) and the metric and chart renderers             *)
(* (components/metric_renderer.py, components/chart_renderer.py).          *)
(*                                                                         *)
(* Python values are modelled as follows.                                  *)
(*   - a str whose characters matter (an object value, SQL text) is a      *)
(*     sequence of one-character strings; a str used only as a key         *)
(*     ("7_days", "user") is a TLA+ string;                                *)
(*   - a datetime.date is its day number (days since 1970-01-01); the      *)
(*     text strftime("%Y-%m-%d") gives is the triple <<year, month, day>>, *)
(*     compared field by field as the text is compared character by        *)
(*     character;                                                          *)
(*   - a dict entry that may be missing or None is a tagged record: Absent,*)
(*     None or Val(v);                                                     *)
(*   - a call either returns or raises: Ret(v, log) or Raise(e, log),      *)
(*     where log is the set of log records the call emitted.               *)
(***************************************************************************)
EXTENDS Integers, Sequences, FiniteSets, TLC

VARIABLES
    now,      \* the clock, in seconds since 1970-01-01 00:00 (datetime.now(), the cache timer)
    ticks,    \* how many times the clock has advanced
    session,  \* QueryExecutor._session: "none" or "created"
    cache,    \* the entries st.cache_data holds for execute_query
    last      \* what the last call was, what it returned or raised, and what it did

vars == <<now, ticks, session, cache, last>>

----------------------------------------------------------------------------
(* Bounds of the model *)

\* how far before each base date the current date ranges
MaxDayShift == 2
\* how many times the clock advances
MaxTicks == 3
\* longest object value drawn from the alphabet
MaxValLen == 2
\* seconds by which one advance moves the clock
TickSeconds == 1800

----------------------------------------------------------------------------
(* Optional values and call outcomes *)

Absent == [tag |-> "absent"]
None == [tag |-> "none"]
Val(v) == [tag |-> "val", v |-> v]

Ret(v, log) == [exc |-> "", val |-> v, log |-> log]
Raise(e, log) == [exc |-> e, log |-> log]
Returned(r) == r.exc = ""

\* dict.get(key): the value, or None when the key is missing
DictGet(entry) == IF entry.tag = "absent" THEN None ELSE entry
\* dict.get(key, default)
DictGetDefault(entry, default) == IF entry.tag = "absent" THEN Val(default) ELSE entry

----------------------------------------------------------------------------
(* datetime.date arithmetic: day numbers and calendar dates *)

\* date(y, m, d) as a day number (proleptic Gregorian calendar)
DaysFromCivil(y, m, d) ==
    LET yy == IF m <= 2 THEN y - 1 ELSE y
        era == yy \div 400
        yoe == yy - era * 400
        mp == IF m > 2 THEN m - 3 ELSE m + 9
        doy == (153 * mp + 2) \div 5 + d - 1
        doe == yoe * 365 + yoe \div 4 - yoe \div 100 + doy
    IN era * 146097 + doe - 719468

\* the <<year, month, day>> of a day number
CivilFromDays(z) ==
    LET zz == z + 719468
        era == zz \div 146097
        doe == zz - era * 146097
        yoe == (doe - doe \div 1460 + doe \div 36524 - doe \div 146096) \div 365
        doy == doe - (365 * yoe + yoe \div 4 - yoe \div 100)
        mp == (5 * doy + 2) \div 153
        d == doy - (153 * mp + 2) \div 5 + 1
        m == IF mp < 10 THEN mp + 3 ELSE mp - 9
        y == yoe + era * 400 + (IF m <= 2 THEN 1 ELSE 0)
    IN <<y, m, d>>

\* date.strftime("%Y-%m-%d"): the text's year, month and day fields
Strftime(date) == CivilFromDays(date)

\* datetime.strptime(text, "%Y-%m-%d").date()
Strptime(text) == DaysFromCivil(text[1], text[2], text[3])

\* text comparison of two formatted dates (character by character = field by field)
DateStrLeq(a, b) ==
    \/ a[1] < b[1]
    \/ a[1] = b[1] /\ a[2] < b[2]
    \/ a[1] = b[1] /\ a[2] = b[2] /\ a[3] <= b[3]

\* datetime.now().date()
Today(clock) == clock \div 86400

Min(a, b) == IF a <= b THEN a ELSE b

----------------------------------------------------------------------------
(* QueryExecutor.get_date_range *)

\* isinstance(x, datetime.date) needs datetime.date to be a type. The module
\* does `from datetime import datetime`, so `datetime` is the class
\* datetime.datetime and `datetime.date` is its method date(): not a type, and
\* isinstance raises TypeError whatever x is.
DatetimeDateIsType == FALSE

\* the timedelta(days=...) of the fixed keys
FixedOffsetDaysOffBy(key) ==
    CASE key = "1_day" -> 1
      [] key = "7_days" -> 7
      [] key = "14_days" -> 14
      [] key = "3_months" -> 91
      [] key = "6_months" -> 180
      [] key = "1_year" -> 365

FixedOffsetDays(key) ==
    CASE key = "1_day" -> 1
      [] key = "7_days" -> 7
      [] key = "14_days" -> 14
      [] key = "3_months" -> 90
      [] key = "6_months" -> 180
      [] key = "1_year" -> 365

FixedKeys == {"1_day", "7_days", "14_days", "3_months", "6_months", "1_year"}

\* thirty days back instead of one calendar month
OneMonthBeforeThirtyDays(end_date) == end_date - 30

\* the '1_month' branch: the same day of the previous month, clamped
OneMonthBefore(end_date) ==
    LET e == CivilFromDays(end_date)
        temp_date == CivilFromDays(DaysFromCivil(e[1], e[2], 1) - 1)
    IN DaysFromCivil(temp_date[1], temp_date[2], Min(e[3], temp_date[3]))

\* the 'custom' branch once both isinstance tests have been evaluated
CustomRange(today, custom_start, custom_end) ==
    LET start_date == IF custom_start.tag = "val" THEN custom_start.v ELSE today - 7
        end_date == IF custom_end.tag = "val" THEN custom_end.v ELSE today
    IN IF start_date > end_date
       THEN Ret(<<Strftime(end_date - 7), Strftime(end_date)>>, {"warning"})
       ELSE Ret(<<Strftime(start_date), Strftime(end_date)>>, {})

\* the branch for an unknown key
DefaultOffsetDaysOffBy == 2 * 7

DefaultOffsetDays == 7

get_date_range(clock, date_filter, custom_start, custom_end) ==
    LET end_date == Today(clock)
        key == IF date_filter.tag = "val" THEN date_filter.v ELSE ""
    IN IF key \in FixedKeys
       THEN Ret(<<Strftime(end_date - FixedOffsetDays(key)), Strftime(end_date)>>, {})
       ELSE IF key = "1_month"
       THEN Ret(<<Strftime(OneMonthBefore(end_date)), Strftime(end_date)>>, {})
       ELSE IF key = "custom"
       THEN IF DatetimeDateIsType
            THEN CustomRange(end_date, custom_start, custom_end)
            ELSE Raise("TypeError", {})
       ELSE Ret(<<Strftime(end_date - DefaultOffsetDays), Strftime(end_date)>>, {})

----------------------------------------------------------------------------
(* str operations on character sequences *)

Whitespace == {" "}

RECURSIVE LStrip(_)
LStrip(s) == IF s # <<>> /\ Head(s) \in Whitespace THEN LStrip(Tail(s)) ELSE s

RECURSIVE RStrip(_)
RStrip(s) ==
    IF s # <<>> /\ s[Len(s)] \in Whitespace THEN RStrip(SubSeq(s, 1, Len(s) - 1)) ELSE s

\* str.strip()
Strip(s) == RStrip(LStrip(s))

LowerChar(c) ==
    CASE c = "A" -> "a"
      [] c = "L" -> "l"
      [] c = "B" -> "b"
      [] c = "K" -> "k"
      [] c = "M" -> "m"
      [] c = "N" -> "n"
      [] OTHER -> c

\* str.lower()
Lower(s) == [i \in 1..Len(s) |-> LowerChar(s[i])]

\* str.replace("'", "''")
RECURSIVE ReplaceQuote(_)
ReplaceQuote(s) ==
    IF s = <<>> THEN <<>>
    ELSE (IF Head(s) = "'" THEN <<"'", "'">> ELSE <<Head(s)>>) \o ReplaceQuote(Tail(s))

\* a value embedded without any replacement
NoReplaceQuote(s) == s

Str_All == <<"A", "l", "l">>
Str_all == <<"a", "l", "l">>

----------------------------------------------------------------------------
(* MetricRenderer._build_query_params and ChartRenderer._build_query_params *)

\* col_map and col_map.get(object_type): None when the type has no entry
ColMapKeys == {"user", "warehouse", "role", "database"}

ColMap(object_type) ==
    CASE object_type = "user" -> "USER_NAME"
      [] object_type = "warehouse" -> "WAREHOUSE_NAME"
      [] object_type = "role" -> "ROLE_NAME"
      [] object_type = "database" -> "DATABASE_NAME"

\* f"AND {column_name} = '{sanitized_object_value}'"
FilterClause(column_name, embedded_value) ==
    <<"AND ", column_name, " = ", "'">> \o embedded_value \o <<"'">>

\* lines 190-213 of metric_renderer.py: the object filter clause, given that
\* the date range has been resolved
ObjectFilterClause(filters, query_config) ==
    LET apply_filter == DictGetDefault(query_config.apply_object_filter, TRUE)
        truthy == apply_filter.tag = "val" /\ apply_filter.v
        object_type == DictGetDefault(filters.object_type, "all")
        raw_value == DictGetDefault(filters.object_value, <<>>)
    IN IF ~truthy THEN Ret(<<>>, {})
       ELSE IF raw_value.tag = "none" THEN Raise("AttributeError", {})
       ELSE LET object_value == Strip(raw_value.v)
                type_is_all == object_type.tag = "val" /\ object_type.v = "all"
            IN IF ~type_is_all /\ object_value # <<>> /\ Lower(object_value) # Str_all
               THEN IF object_type.tag = "val" /\ object_type.v \in ColMapKeys
                    THEN Ret(FilterClause(ColMap(object_type.v), ReplaceQuote(object_value)), {})
                    ELSE Ret(<<>>, {"warning"})
               ELSE Ret(<<>>, {})

\* lines 214-219: the Query Parameters, from the date range and the clause
QueryParams(range, clause) ==
    IF ~Returned(range) THEN range
    ELSE IF ~Returned(clause) THEN Raise(clause.exc, range.log \cup clause.log)
    ELSE Ret([start_date |-> range.val[1],
              end_date |-> range.val[2],
              object_filter |-> clause.val],
             range.log \cup clause.log)

\* a filters argument that is no mapping (None): filters.get raises
NotAMapping == None

build_query_params(clock, filters, query_config) ==
    IF filters = NotAMapping THEN Raise("AttributeError", {})
    ELSE
    QueryParams(get_date_range(clock,
                               DictGetDefault(filters.date_filter, "7_days"),
                               DictGet(filters.custom_start),
                               DictGet(filters.custom_end)),
                ObjectFilterClause(filters, query_config))

MetricRenderer_build_query_params(clock, filters, query_config) ==
    build_query_params(clock, filters, query_config)

ChartRenderer_build_query_params(clock, filters, query_config) ==
    build_query_params(clock, filters, query_config)

----------------------------------------------------------------------------
(* SQL templates and str.format *)

Lit(text) == [lit |-> text]
Ph(name) == [ph |-> name]
IsPh(seg) == "ph" \in DOMAIN seg

\* queries/roles_360_queries.py and queries/user_360_queries.py:
\* {start_date}, {end_date} and {object_filter}
TplObject ==
    <<Lit("SELECT COUNT(*) FROM QUERY_HISTORY WHERE START_TIME >= '"), Ph("start_date"),
      Lit("' AND START_TIME <= '"), Ph("end_date"), Lit("' "), Ph("object_filter")>>

\* queries/user_360_new_quries.py: {start_date} and {user_filter}
TplUser ==
    <<Lit("SELECT COUNT(*) FROM QUERY_HISTORY WHERE START_TIME >= '"), Ph("start_date"),
      Lit("' "), Ph("user_filter")>>

\* queries/user_360_new_quries.py, total_users_defined: no placeholder
TplPlain == <<Lit("SELECT COUNT(*) FROM USERS WHERE DELETED_ON IS NULL")>>

\* queries/roles_360_queries.py, top_roles_by_total_queries: dates only
TplDates ==
    <<Lit("SELECT COUNT(*) FROM QUERY_HISTORY WHERE START_TIME >= '"), Ph("start_date"),
      Lit("' AND START_TIME <= '"), Ph("end_date"), Lit("'")>>

Placeholders(tpl) == {tpl[i].ph : i \in {j \in 1..Len(tpl) : IsPh(tpl[j])}}

\* the text str.format writes for a date string, or for None
Pad2(n) == IF n < 10 THEN <<"0", ToString(n)>> ELSE <<ToString(n)>>
DateText(d) == <<ToString(d[1]), "-">> \o Pad2(d[2]) \o <<"-">> \o Pad2(d[3])
FormatValue(entry) == IF entry.tag = "val" THEN DateText(entry.v) ELSE <<"None">>

RECURSIVE Splice(_, _)
Splice(tpl, kwargs) ==
    IF tpl = <<>> THEN <<>>
    ELSE (IF IsPh(Head(tpl)) THEN kwargs[Head(tpl).ph] ELSE <<Head(tpl).lit>>)
             \o Splice(Tail(tpl), kwargs)

\* template.format(**kwargs): KeyError for a placeholder that is no keyword
StrFormat(tpl, kwargs) ==
    IF Placeholders(tpl) \subseteq DOMAIN kwargs
    THEN Ret(Splice(tpl, kwargs), {})
    ELSE Raise("KeyError", {})

----------------------------------------------------------------------------
(* Numbers and their text. A Python float is modelled as an exact decimal    *)
(* m * 10^e, kept normalised (m has no trailing zero; zero is 0 * 10^0).     *)

RECURSIVE Norm(_, _)
Norm(m, e) ==
    IF m = 0 THEN [m |-> 0, e |-> 0]
    ELSE IF m % 10 = 0 THEN Norm(m \div 10, e + 1)
    ELSE [m |-> m, e |-> e]

Dec(n) == Norm(n, 0)

Abs(n) == IF n < 0 THEN -n ELSE n

RECURSIVE Pow10(_)
Pow10(k) == IF k = 0 THEN 1 ELSE 10 * Pow10(k - 1)

RECURSIVE Digits(_)
Digits(n) == IF n < 10 THEN <<ToString(n)>> ELSE Digits(n \div 10) \o <<ToString(n % 10)>>

\* abs(x) >= 10^k
AtLeastPow10(x, k) == x.m # 0 /\ Len(Digits(Abs(x.m))) + x.e >= k + 1

\* x * 10^k
Shift(x, k) == IF x.m = 0 THEN x ELSE [m |-> x.m, e |-> x.e + k]

\* x * n for an integer n
Times(x, n) == Norm(x.m * n, x.e)

\* x == int(x)
IsWhole(x) == x.e >= 0

\* rounding a / b (a >= 0, b > 0) to the nearest integer, ties to even
RoundHalfEven(a, b) ==
    LET q == a \div b
        r == a % b
    IN IF 2 * r > b \/ (2 * r = b /\ q % 2 = 1) THEN q + 1 ELSE q

RECURSIVE GroupDigits(_)
GroupDigits(d) ==
    IF Len(d) <= 3 THEN d
    ELSE GroupDigits(SubSeq(d, 1, Len(d) - 3)) \o <<",">> \o SubSeq(d, Len(d) - 2, Len(d))

RECURSIVE PadDigits(_, _)
PadDigits(d, width) == IF Len(d) >= width THEN d ELSE PadDigits(<<"0">> \o d, width)

\* the digits of abs(x / n) in the format .{decimals}f, with or without grouping
FixedDigitsOver(x, n, decimals, grouped) ==
    LET k == x.e + decimals
        q == IF k >= 0 THEN RoundHalfEven(Abs(x.m) * Pow10(k), n)
             ELSE RoundHalfEven(Abs(x.m), n * Pow10(-k))
        whole == Digits(q \div Pow10(decimals))
    IN (IF grouped THEN GroupDigits(whole) ELSE whole)
           \o (IF decimals = 0 THEN <<>>
               ELSE <<".">> \o PadDigits(Digits(q % Pow10(decimals)), decimals))

\* f"{x:.{decimals}f}" and f"{x:,.{decimals}f}"
Fixed(x, decimals, grouped) ==
    (IF x.m < 0 THEN <<"-">> ELSE <<>>) \o FixedDigitsOver(x, 1, decimals, grouped)

\* f"{x/n:.{decimals}f}"
FixedOver(x, n, decimals) ==
    (IF x.m < 0 THEN <<"-">> ELSE <<>>) \o FixedDigitsOver(x, n, decimals, FALSE)

\* abs(x) >= n for an integer n > 0
AtLeastInt(x, n) ==
    IF x.e >= 0 THEN Abs(x.m) * Pow10(x.e) >= n ELSE Abs(x.m) >= n * Pow10(-x.e)

RECURSIVE RStripChar(_, _)
RStripChar(s, c) ==
    IF s # <<>> /\ s[Len(s)] = c THEN RStripChar(SubSeq(s, 1, Len(s) - 1), c) ELSE s

DigitChars == {"0", "1", "2", "3", "4", "5", "6", "7", "8", "9"}

DigitValue(c) == CHOOSE d \in 0..9 : ToString(d) = c

RECURSIVE DigitsValue(_)
DigitsValue(d) ==
    IF d = <<>> THEN 0 ELSE 10 * DigitsValue(SubSeq(d, 1, Len(d) - 1)) + DigitValue(d[Len(d)])

\* float(text): Val(number), or None for the ValueError
ParseFloat(text) ==
    LET signed == text # <<>> /\ Head(text) \in {"-", "+"}
        body == IF signed THEN Tail(text) ELSE text
        dots == {i \in 1..Len(body) : body[i] = "."}
        whole == IF dots = {} THEN body ELSE SubSeq(body, 1, (CHOOSE i \in dots : TRUE) - 1)
        frac == IF dots = {} THEN <<>>
                ELSE SubSeq(body, (CHOOSE i \in dots : TRUE) + 1, Len(body))
        ok == /\ Cardinality(dots) <= 1
              /\ Len(whole) + Len(frac) >= 1
              /\ \A i \in 1..Len(whole) : whole[i] \in DigitChars
              /\ \A i \in 1..Len(frac) : frac[i] \in DigitChars
        magnitude == DigitsValue(whole \o frac)
    IN IF ~ok THEN None
       ELSE Val(Norm(IF signed /\ Head(text) = "-" THEN -magnitude ELSE magnitude,
                     -Len(frac)))

----------------------------------------------------------------------------
(* Result Tables *)

\* pd.DataFrame()
EmptyTable == [columns |-> <<>>, rows |-> <<>>]

\* a one-row, one-column table holding a count
NumCell(x) == [kind |-> "num", v |-> x]
TextCell(t) == [kind |-> "text", s |-> t]
NullCell == [kind |-> "null"]

CountTable(n) ==
    [columns |-> <<[name |-> "COUNT", numeric |-> TRUE]>>, rows |-> <<<<NumCell(Dec(n))>>>>]

\* df.empty
IsEmpty(df) == df.rows = <<>> \/ df.columns = <<>>

----------------------------------------------------------------------------
(* MetricRenderer: formatting, parsing, extraction *)

Str_NA == <<"N", "/", "A">>

format_number(x) ==
    IF x.m = 0 THEN <<"0">>
    ELSE IF AtLeastPow10(x, 9) THEN Fixed(Shift(x, -9), 1, FALSE) \o <<"B">>
    ELSE IF AtLeastPow10(x, 6) THEN Fixed(Shift(x, -6), 1, FALSE) \o <<"M">>
    ELSE IF AtLeastPow10(x, 3) THEN Fixed(Shift(x, -3), 1, FALSE) \o <<"K">>
    ELSE IF IsWhole(x) THEN Fixed(x, 0, TRUE)
    ELSE RStripChar(RStripChar(Fixed(x, 2, TRUE), "0"), ".")

format_duration(x) ==
    IF x.m = 0 THEN <<"0", "s">>
    ELSE IF AtLeastInt(x, 3600) THEN FixedOver(x, 3600, 1) \o <<"h">>
    ELSE IF AtLeastInt(x, 60) THEN FixedOver(x, 60, 1) \o <<"m">>
    ELSE IF IsWhole(x) THEN Fixed(x, 0, FALSE) \o <<"s">>
    ELSE Fixed(x, 1, FALSE) \o <<"s">>

\* str(float): at least one decimal
FloatRepr(x) == Fixed(x, IF x.e >= 0 THEN 1 ELSE -x.e, FALSE)

\* the first row's value of the first column, whatever its type
ExtractCellOfFirstColumn(df) == df.rows[1][1]

\* the first row's value of the first numeric column, else of the first column
ExtractCell(df) ==
    LET numeric == {i \in 1..Len(df.columns) : df.columns[i].numeric}
    IN IF numeric # {}
       THEN df.rows[1][CHOOSE i \in numeric : \A j \in numeric : i <= j]
       ELSE df.rows[1][1]

extract_metric_value(df, format_type) ==
    IF IsEmpty(df) THEN Str_NA
    ELSE LET cell == ExtractCell(df)
             number == IF cell.kind = "num" THEN Val(cell.v)
                       ELSE IF cell.kind = "text" THEN ParseFloat(Strip(cell.s))
                       ELSE None
         IN IF cell.kind = "null" THEN Str_NA
            ELSE IF number.tag # "val" THEN cell.s
            ELSE CASE format_type = "number" -> format_number(number.v)
                   [] format_type = "percentage" -> Fixed(number.v, 1, FALSE) \o <<"%">>
                   [] format_type = "currency" -> <<"$">> \o Fixed(number.v, 2, TRUE)
                   [] format_type = "duration" -> format_duration(number.v)
                   [] OTHER -> FloatRepr(number.v)

\* float(s_value[:-1]) when s_value ends with the suffix, else nothing
SuffixFloat(s, suffix) ==
    IF s # <<>> /\ s[Len(s)] = suffix THEN ParseFloat(SubSeq(s, 1, Len(s) - 1)) ELSE None

RemoveChars(s, chars) == SelectSeq(s, LAMBDA c : c \notin chars)

\* the number a formatted value parses to, or None
parse_formatted_value(value) ==
    IF value.tag # "val" THEN None
    ELSE LET s == Lower(Strip(value.v))
             b == SuffixFloat(s, "b")
             m == SuffixFloat(s, "m")
             k == SuffixFloat(s, "k")
             h == SuffixFloat(s, "h")
             sec == SuffixFloat(s, "s")
         IN IF b.tag = "val" THEN Val(Shift(b.v, 9))
            ELSE IF m.tag = "val" THEN Val(Shift(m.v, 6))
            ELSE IF k.tag = "val" THEN Val(Shift(k.v, 3))
            ELSE IF h.tag = "val" THEN Val(Times(h.v, 3600))
            ELSE IF m.tag = "val" /\ Len(s) > 1 THEN Val(Times(m.v, 60))
            ELSE IF sec.tag = "val" THEN sec
            ELSE ParseFloat(RemoveChars(s, {"$", "%", ","}))

\* r / n (0 <= r < n) in thousandths, rounded to the nearest, ties to even
Thousandths(r, n) ==
    LET d1 == (r * 10) \div n
        r1 == (r * 10) % n
        d2 == (r1 * 10) \div n
        r2 == (r1 * 10) % n
        d3 == (r2 * 10) \div n
        r3 == (r2 * 10) % n
        t == d1 * 100 + d2 * 10 + d3
    IN IF 2 * r3 > n \/ (2 * r3 = n /\ t % 2 = 1) THEN t + 1 ELSE t

\* f"{(a - b) / abs(b) * 100:+.1f}%" for b # 0
PercentDelta(a, b) ==
    LET e == Min(a.e, b.e)
        am == a.m * Pow10(a.e - e)
        bm == b.m * Pow10(b.e - e)
        t == Thousandths(Abs(am - bm) % Abs(bm), Abs(bm))
    IN <<IF am - bm < 0 THEN "-" ELSE "+">>
           \o Digits((Abs(am - bm) \div Abs(bm)) * 100 + t \div 10)
           \o <<".", ToString(t % 10), "%">>

\* a delta that reports nothing when the comparison value is zero
DeltaValueWithoutNew(value, comparison_value) ==
    LET numeric_value == parse_formatted_value(Val(value))
        numeric_comparison_value == parse_formatted_value(Val(comparison_value))
    IN IF numeric_value.tag # "val" \/ numeric_comparison_value.tag # "val" THEN None
       ELSE IF numeric_comparison_value.v.m # 0
       THEN Val(PercentDelta(numeric_value.v, numeric_comparison_value.v))
       ELSE None

\* lines 95-117: the delta of two formatted values
DeltaValue(value, comparison_value) ==
    LET numeric_value == parse_formatted_value(Val(value))
        numeric_comparison_value == parse_formatted_value(Val(comparison_value))
    IN IF numeric_value.tag # "val" \/ numeric_comparison_value.tag # "val" THEN None
       ELSE IF numeric_comparison_value.v.m # 0
       THEN Val(PercentDelta(numeric_value.v, numeric_comparison_value.v))
       ELSE IF numeric_value.v.m # 0
       THEN Val(<<"+">> \o format_number(numeric_value.v) \o <<" ", "(new)">>)
       ELSE None

----------------------------------------------------------------------------
(* QueryExecutor.execute_query *)

\* query_config as the docstring describes it: a dict
ConfigDict(query, apply) == [type |-> "dict", query |-> query, apply_object_filter |-> apply]
\* query_config as the renderers pass it: query_config["query"], a str
ConfigStr(tpl) == [type |-> "str", text |-> tpl]

\* the filters argument: the keys execute_query and the renderers use
ExecFilters(sd, ed, ot, ov, of) ==
    [start_date |-> sd, end_date |-> ed, object_type |-> ot, object_value |-> ov,
     object_filter |-> of]

\* filters or {}
NoFilters == ExecFilters(Absent, Absent, Absent, Absent, Absent)

\* line 107: the selected user as it is embedded
UserFilterEmbed(selected_user) == selected_user

\* lines 101-112
UserFilterClause(query_config, f) ==
    LET apply == DictGetDefault(query_config.apply_object_filter, FALSE)
        selected_user == DictGet(f.object_value)
    IN IF /\ apply.tag = "val" /\ apply.v
          /\ DictGet(f.object_type) = Val("user")
          /\ selected_user.tag = "val"
          /\ selected_user.v # <<>>
          /\ selected_user.v # Str_All
       THEN FilterClause("USER_NAME", UserFilterEmbed(selected_user.v))
       ELSE <<"AND 1=1">>

\* the keywords handed to query_template.format
FormatKeywords(clock, query_config, f) ==
    LET given == DictGet(f.start_date)
        start_date_str == IF given.tag = "val" THEN given ELSE Val(Strftime(Today(clock) - 7))
    IN [start_date |-> FormatValue(start_date_str),
        end_date |-> FormatValue(DictGet(f.end_date)),
        user_filter |-> UserFilterClause(query_config, f)]

\* a session is made by every call, whether or not one exists
GetSessionAnew(sess, connect_ok) == connect_ok

\* QueryExecutor.get_session: True when a session exists after the call
GetSession(sess, connect_ok) == sess = "created" \/ connect_ok

\* the body of execute_query (a cache miss). connect_ok: creating the session
\* succeeds; answer: what the warehouse does with the SQL text.
ExecuteBody(clock, sess, connect_ok, query_config, filters, answer) ==
    IF ~GetSession(sess, connect_ok)
    THEN \* st.stop() in _create_snowpark_session
         [out |-> Raise("StopException", {"error"}), session |-> sess, sent |-> <<>>]
    ELSE IF query_config.type # "dict"
    THEN \* line 79: str has no get
         [out |-> Raise("AttributeError", {}), session |-> "created", sent |-> <<>>]
    ELSE IF DictGet(query_config.query).tag # "val"
    THEN [out |-> Ret(EmptyTable, {"error"}), session |-> "created", sent |-> <<>>]
    ELSE LET f == IF filters.tag = "val" THEN filters.v ELSE NoFilters
             log == IF DictGet(f.start_date).tag = "val" THEN {} ELSE {"warning"}
             formatted == StrFormat(query_config.query.v, FormatKeywords(clock, query_config, f))
         IN IF ~Returned(formatted)
            THEN \* the handler at line 136 reads formatted_query, which was never bound
                 [out |-> Raise("UnboundLocalError", log), session |-> "created",
                  sent |-> <<>>]
            ELSE IF answer.kind = "table"
            THEN [out |-> Ret(answer.table, log \cup {"info"}), session |-> "created",
                  sent |-> <<formatted.val>>]
            ELSE [out |-> Ret(EmptyTable, log \cup {"error"}), session |-> "created",
                  sent |-> <<formatted.val>>]

\* @st.cache_data(ttl=3600)
TTL == 3600

\* a cache whose entries never expire
CacheLookupNeverExpires(c, key, clock) == {e \in c : e.key = key}

\* the entries of a key that have not expired
CacheLookup(c, key, clock) == {e \in c : e.key = key /\ clock - e.at < TTL}

\* a cache that keeps no empty table
CacheStoreUnlessEmpty(c, key, table, clock) ==
    IF table = EmptyTable THEN c
    ELSE {e \in c : e.key # key /\ clock - e.at < TTL}
             \cup {[key |-> key, table |-> table, at |-> clock]}

\* the cache after a call that returned: the value is stored under the key,
\* whatever it is, and entries that have expired are dropped
CacheStore(c, key, table, clock) ==
    {e \in c : e.key # key /\ clock - e.at < TTL}
        \cup {[key |-> key, table |-> table, at |-> clock]}

\* execute_query behind its cache: a live entry is returned without running
\* the body; a returned table is stored, an exception is not
execute_query(clock, sess, c, connect_ok, query_config, filters, answer) ==
    LET key == <<query_config, filters>>
        hits == CacheLookup(c, key, clock)
    IN IF hits # {}
       THEN [out |-> Ret((CHOOSE e \in hits : TRUE).table, {}), session |-> sess,
             sent |-> <<>>, hit |-> TRUE, cache |-> c]
       ELSE LET r == ExecuteBody(clock, sess, connect_ok, query_config, filters, answer)
            IN [out |-> r.out, session |-> r.session, sent |-> r.sent, hit |-> FALSE,
                cache |-> IF Returned(r.out) THEN CacheStore(c, key, r.out.val, clock)
                          ELSE c]

----------------------------------------------------------------------------
(* ChartRenderer: the chart configuration and the figure *)

\* the chart fields _get_chart_config resolves
ChartFields == {"chart_type", "x_col", "y_col", "value_col", "color_col", "hover_data"}

\* the chart part of a Query Definition: every field is Absent or a value;
\* toggle_options lists the toggle variants in the order of the dict, each
\* with its name and the fields it defines
ChartDefinition(chart_type, x_col, y_col, value_col, color_col, hover_data, toggle_options) ==
    [chart_type |-> chart_type, x_col |-> x_col, y_col |-> y_col, value_col |-> value_col,
     color_col |-> color_col, hover_data |-> hover_data, toggle_options |-> toggle_options]

\* a toggle variant, or the override arguments of render: one entry per chart field
ChartFieldValues(chart_type, x_col, y_col, value_col, color_col, hover_data) ==
    [chart_type |-> chart_type, x_col |-> x_col, y_col |-> y_col, value_col |-> value_col,
     color_col |-> color_col, hover_data |-> hover_data]

\* a toggle variant of a chart
ToggleOption(key, config) == [key |-> key, config |-> config]

\* a Query Definition without chart fields
NoChart == ChartDefinition(Absent, Absent, Absent, Absent, Absent, Absent, <<>>)

\* the chart fields of ROLES_360_QUERIES['top_roles_by_total_queries']
TopRolesChart ==
    ChartDefinition(Val("bar"), Val("ROLE_NAME"), Val("TOTAL_QUERIES"), Absent, Absent,
                    Val({"TOTAL_QUERIES", "TOTAL_EXECUTION_TIME_MS"}),
                    <<ToggleOption("query_count",
                                   ChartFieldValues(Absent, Absent, Val("TOTAL_QUERIES"),
                                                    Absent, Absent, Absent)),
                      ToggleOption("execution_time",
                                   ChartFieldValues(Absent, Absent,
                                                    Val("TOTAL_EXECUTION_TIME_MS"), Absent,
                                                    Absent, Absent))>>)

\* render called without chart overrides
NoOverrides == ChartFieldValues(None, None, None, None, None, None)

\* lines 288-297: the base configuration
BaseConfig(chart) ==
    [chart_type |-> DictGetDefault(chart.chart_type, "bar"),
     x_col |-> DictGet(chart.x_col),
     y_col |-> DictGet(chart.y_col),
     value_col |-> DictGet(chart.value_col),
     color_col |-> DictGet(chart.color_col),
     hover_data |-> DictGetDefault(chart.hover_data, {})]

\* config.update(toggle_config)
DictUpdate(config, toggle_config) ==
    [f \in DOMAIN config |->
        IF toggle_config[f].tag = "absent" THEN config[f] ELSE toggle_config[f]]

\* toggle_options.keys()
ToggleKeys(toggle_options) == {toggle_options[i].key : i \in DOMAIN toggle_options}

\* toggle_options[key]
ToggleConfig(toggle_options, key) ==
    toggle_options[CHOOSE i \in DOMAIN toggle_options : toggle_options[i].key = key].config

\* lines 300-304
ApplyToggle(config, toggle_options, current_toggle) ==
    IF current_toggle # "default" /\ current_toggle \in ToggleKeys(toggle_options)
    THEN DictUpdate(config, ToggleConfig(toggle_options, current_toggle))
    ELSE config

\* lines 307-312: an override that is not None replaces the field
ApplyOverrides(config, overrides) ==
    [f \in DOMAIN config |-> IF overrides[f] # None THEN overrides[f] ELSE config[f]]

\* the names of module chart_renderer (lines 7-19)
ModuleNames ==
    {"logging", "datetime", "timedelta", "Any", "Dict", "Optional", "Tuple", "pd", "px", "go",
     "st", "logger", "ChartRenderer"}

\* the parameters and the local variables of _get_chart_config (lines 272-304)
GetChartConfigNames ==
    {"self", "query_config", "current_toggle", "chart_type", "x_col", "y_col", "value_col",
     "color_col", "hover_data", "config", "toggle_options", "toggle_config"}

\* ChartRenderer._get_chart_config. Line 313 reads the name `label`, which is
\* a parameter of render and neither a name of this function nor of the module.
get_chart_config(chart, current_toggle, overrides) ==
    IF "label" \notin GetChartConfigNames \cup ModuleNames
    THEN Raise("NameError", {})
    ELSE Ret(ApplyOverrides(ApplyToggle(BaseConfig(chart), chart.toggle_options,
                                        current_toggle),
                            overrides),
             {})

\* ChartRenderer._handle_toggle_options, the session remembering `selected`
\* for this chart (None: nothing remembered yet)
handle_toggle_options(chart, selected) ==
    IF chart.toggle_options = <<>> THEN "default"
    ELSE IF selected = None THEN chart.toggle_options[1].key
    ELSE selected.v

\* str.lower() on the names of chart kinds
LowerKind(chart_type) ==
    CASE chart_type = "Bar" -> "bar"
      [] chart_type = "Heatmap" -> "heatmap"
      [] OTHER -> chart_type

\* `if col:` on a configuration value
Truthy(v) == v.tag = "val" /\ v.v # ""

\* the column a configuration field names, if it names one
Given(config, f) == IF Truthy(config[f]) THEN {config[f].v} ELSE {}

\* df.columns as a set of names
ColumnNames(df) == {df.columns[i].name : i \in DOMAIN df.columns}

\* the chart kinds that share the validation of line 334
AxisCharts == {"bar", "line", "scatter", "box", "area", "histogram"}

\* lines 333-349: the columns the chart kind requires
RequiredCols(chart_type, columns, config) ==
    CASE chart_type \in AxisCharts ->
             Given(config, "x_col") \cup Given(config, "y_col") \cup Given(config, "color_col")
      [] chart_type = "pie" -> Given(config, "x_col") \cup Given(config, "y_col")
      [] chart_type = "heatmap" ->
             Given(config, "x_col") \cup Given(config, "y_col") \cup Given(config, "value_col")
      [] chart_type = "treemap" ->
             Given(config, "x_col") \cup (Given(config, "y_col") \cap columns)
                 \cup Given(config, "value_col")
      [] OTHER -> {}

\* the value of a configuration field when it is not None
NotNone(config, f) == IF config[f].tag = "val" THEN {config[f].v} ELSE {}

\* lines 383-517: the columns handed to the plotly call of the chart kind,
\* hover columns aside; a kind that is not supported is drawn by px.bar
PlottedCols(chart_type, columns, config) ==
    CASE chart_type = "histogram" -> NotNone(config, "x_col") \cup NotNone(config, "color_col")
      [] chart_type = "pie" -> NotNone(config, "x_col") \cup NotNone(config, "y_col")
      [] chart_type = "heatmap" ->
             NotNone(config, "x_col") \cup NotNone(config, "y_col")
                 \cup NotNone(config, "value_col")
      [] chart_type = "treemap" ->
             NotNone(config, "x_col") \cup (Given(config, "y_col") \cap columns)
                 \cup NotNone(config, "value_col")
      [] chart_type = "table" -> {}
      [] OTHER ->
             NotNone(config, "x_col") \cup NotNone(config, "y_col")
                 \cup NotNone(config, "color_col")

\* a Plotly figure: the call that made it and the columns it shows
Figure(chart_type, plotted, hover_data) ==
    [chart |-> IF chart_type \in AxisCharts \cup {"pie", "heatmap", "treemap", "table"}
               THEN chart_type ELSE "bar",
     columns |-> plotted, hover_data |-> hover_data]

\* the error dictionary _create_chart returns
ChartError(error) == [error |-> error]

\* what _create_chart gives: the figure or the error dictionary, and the
\* columns it handed to a plotly call on the way
Created(result, plotted) == [result |-> result, plotted |-> plotted]

\* lines 366-547: the plotly call. A column that is not in the table makes
\* plotly express raise ValueError, which line 543 turns into an error dictionary.
Draw(chart_type, columns, config, valid_hover_data) ==
    IF chart_type = "heatmap"
       /\ ~(Truthy(config.x_col) /\ Truthy(config.y_col) /\ Truthy(config.value_col))
    THEN Created(ChartError(<<"creating", "ValueError">>), {})
    ELSE IF chart_type = "treemap" /\ ~(Truthy(config.x_col) /\ Truthy(config.value_col))
    THEN Created(ChartError(<<"creating", "ValueError">>), {})
    ELSE IF chart_type = "table"
    THEN IF columns # {} THEN Created(Figure(chart_type, columns, {}), {})
         ELSE Created(ChartError(<<"no valid columns">>), {})
    ELSE IF ~(PlottedCols(chart_type, columns, config) \subseteq columns)
    THEN Created(ChartError(<<"creating", "ValueError">>),
                 PlottedCols(chart_type, columns, config))
    ELSE Created(Figure(chart_type, PlottedCols(chart_type, columns, config),
                        valid_hover_data),
                 PlottedCols(chart_type, columns, config))

\* lines 351-362, chart_type being the lowered kind
ValidateAndDraw(chart_type, columns, config) ==
    IF RequiredCols(chart_type, columns, config) \ columns # {}
    THEN Created(ChartError(<<"missing", RequiredCols(chart_type, columns, config) \ columns>>),
                 {})
    ELSE Draw(chart_type, columns, config, config.hover_data.v \cap columns)

\* ChartRenderer._create_chart
create_chart(df, config) ==
    ValidateAndDraw(LowerKind(config.chart_type.v), ColumnNames(df), config)

----------------------------------------------------------------------------
(* The query store and the renderers *)

QueryDefinition(query, label, format, apply) ==
    [query |-> query, label |-> label, format |-> format, apply_object_filter |-> apply,
     description |-> Val("description"), chart |-> NoChart]

\* entries of ROLES_360_QUERIES and USER_360_QUERIES, and an entry without
\* the 'query' field, as a store handed to render may hold
QueryStore ==
    [k \in {"queries_by_role", "top_roles_by_total_queries", "total_queries_run",
            "no_query_field"} |->
        CASE k = "queries_by_role" ->
                 QueryDefinition(Val(TplObject), Val("Queries Executed by Role"), Val("number"), Val(TRUE))
          [] k = "top_roles_by_total_queries" ->
                 [QueryDefinition(Val(TplDates), Val("Top 10 Roles by Query Volume"), Absent,
                                  Val(FALSE))
                     EXCEPT !.chart = TopRolesChart]
          [] k = "total_queries_run" ->
                 QueryDefinition(Val(TplUser), Val("Total Queries Run"), Val("number"), Val(TRUE))
          [] k = "no_query_field" ->
                 QueryDefinition(Absent, Val("No Query"), Val("number"), Val(TRUE))]

\* the Query Parameters as the filters argument of execute_query
ParamsAsFilters(params) ==
    Val(ExecFilters(Val(params.start_date), Val(params.end_date), Absent, Absent,
                    Val(params.object_filter)))

\* x or y
OrElse(x, y) == IF x.tag = "val" THEN x ELSE y

\* `label or query_key` of lines 48 and 61: the label, else the key, which is
\* None when the key given is None
LabelOr(label, query_key) ==
    IF label.tag = "val" THEN label.v ELSE IF query_key.tag = "val" THEN query_key.v ELSE None

\* an error record that also carries a value
ErrorRecordWithValue(error, label) == [error |-> error, label |-> label, value |-> Str_NA]

\* the error-shaped record of lines 54 and 131
ErrorRecord(error, label) == [error |-> error, label |-> label]

\* what `except Exception` at the end of render does with an exception:
\* StopException derives from BaseException and passes through
Boundary(exc, label, log) ==
    IF exc = "StopException" THEN Raise(exc, log)
    ELSE Ret(ErrorRecord(<<"unexpected", exc>>, label), log \cup {"error"})

\* what a render leaves behind: its outcome, the session, the cache and the
\* SQL texts it sent
Outcome(out, sess, c, sent) == [out |-> out, session |-> sess, cache |-> c, sent |-> sent]

\* lines 235-250: the Filter State of the period before the range
PreviousPeriod(current_filters, range) ==
    IF ~Returned(range) THEN range
    ELSE Ret([current_filters EXCEPT
                 !.custom_start = Val(Strptime(range.val[1]) - 1
                                        - (Strptime(range.val[2]) - Strptime(range.val[1]))),
                 !.custom_end = Val(Strptime(range.val[1]) - 1),
                 !.date_filter = Val("custom")],
             range.log)

\* MetricRenderer._get_previous_period_filters
get_previous_period_filters(clock, current_filters) ==
    IF current_filters = NotAMapping THEN Raise("AttributeError", {})
    ELSE
    PreviousPeriod(current_filters,
                   get_date_range(clock,
                                  DictGetDefault(current_filters.date_filter, "7_days"),
                                  DictGet(current_filters.custom_start),
                                  DictGet(current_filters.custom_end)))

\* lines 121-126: the success-shaped record. m: the Query Definition, the
\* label and the format of the metric
MetricRecord(m, value, delta) ==
    [label |-> m.current_label, value |-> value, delta |-> delta,
     description |-> DictGetDefault(m.query_config.description, "").v]

\* lines 90-119, r being what the query of the prior period left
MetricAfterPrevious(m, sent, value, r) ==
    IF ~Returned(r.out)
    THEN Outcome(Boundary(r.out.exc, m.current_label, r.out.log), r.session, r.cache,
                 sent \o r.sent)
    ELSE IF IsEmpty(r.out.val)
    THEN Outcome(Ret(MetricRecord(m, value, None), {"info"}), r.session, r.cache,
                 sent \o r.sent)
    ELSE Outcome(Ret(MetricRecord(m, value,
                                  DeltaValue(value, extract_metric_value(r.out.val,
                                                                         m.format_type))),
                     {}),
                 r.session, r.cache, sent \o r.sent)

\* lines 84-88, params_prev being what _build_query_params gave
MetricPrevious(call, m, state, value, delta_query_config, params_prev) ==
    IF ~Returned(params_prev)
    THEN Outcome(Boundary(params_prev.exc, m.current_label, {}), state.session,
                 state.cache, state.sent)
    ELSE IF delta_query_config.query.tag = "absent"
    THEN Outcome(Boundary("KeyError", m.current_label, {}), state.session, state.cache,
                 state.sent)
    ELSE MetricAfterPrevious(m, state.sent, value,
                             execute_query(call.clock, state.session, state.cache,
                                           call.connect_ok,
                                           ConfigStr(delta_query_config.query.v),
                                           ParamsAsFilters(params_prev.val),
                                           call.answer_previous))

\* line 83, previous_period_filters being what _get_previous_period_filters gave
MetricPreviousFilters(call, m, state, value, delta_query_config, previous_period_filters) ==
    IF ~Returned(previous_period_filters)
    THEN Outcome(Boundary(previous_period_filters.exc, m.current_label, {}),
                 state.session, state.cache, state.sent)
    ELSE MetricPrevious(call, m, state, value, delta_query_config,
                        MetricRenderer_build_query_params(call.clock,
                                                          previous_period_filters.val,
                                                          delta_query_config))

\* lines 78-126: the delta and the returned record, once the value of the
\* current period is known. state: the session, the cache and the SQL sent
\* after the first query.
MetricDelta(call, m, state, value) ==
    IF ~(call.delta_query_key.tag = "val" /\ call.delta_query_key.v \in DOMAIN QueryStore)
    THEN Outcome(Ret(MetricRecord(m, value, None), {}), state.session, state.cache,
                 state.sent)
    ELSE MetricPreviousFilters(call, m, state, value, QueryStore[call.delta_query_key.v],
                               get_previous_period_filters(call.clock, call.filters))

\* lines 68-76, r being what the query of the current period left
MetricAfterCurrent(call, m, r) ==
    IF ~Returned(r.out)
    THEN Outcome(Boundary(r.out.exc, m.current_label, r.out.log), r.session, r.cache,
                 r.sent)
    ELSE MetricDelta(call, m, [session |-> r.session, cache |-> r.cache, sent |-> r.sent],
                     IF IsEmpty(r.out.val) THEN Str_NA
                     ELSE extract_metric_value(r.out.val, m.format_type))

\* lines 63-66, params being what _build_query_params gave
MetricCurrent(call, m, params) ==
    IF ~Returned(params)
    THEN Outcome(Boundary(params.exc, m.current_label, params.log), call.session,
                 call.cache, <<>>)
    ELSE IF m.query_config.query.tag = "absent"
    THEN Outcome(Boundary("KeyError", m.current_label, {}), call.session, call.cache, <<>>)
    ELSE MetricAfterCurrent(call, m,
                            execute_query(call.clock, call.session, call.cache,
                                          call.connect_ok,
                                          ConfigStr(m.query_config.query.v),
                                          ParamsAsFilters(params.val), call.answer))

\* MetricRenderer.render. call: the clock, the session and the cache at the
\* call, whether a session can be created, the arguments query_key, filters,
\* label, format_type, delta_query_key, and what the warehouse does with the
\* SQL of the current and of the prior period.
MetricRenderer_render(call) ==
    IF ~(call.query_key.tag = "val" /\ call.query_key.v \in DOMAIN QueryStore)
    THEN Outcome(Ret(ErrorRecord(<<"not found">>, LabelOr(call.label, call.query_key)),
                     {"error"}),
                 call.session, call.cache, <<>>)
    ELSE MetricCurrent(call,
                       [query_config |-> QueryStore[call.query_key.v],
                        current_label |->
                            OrElse(call.label,
                                   DictGetDefault(QueryStore[call.query_key.v].label,
                                                  "Metric")).v,
                        format_type |->
                            OrElse(call.format_type,
                                   DictGetDefault(QueryStore[call.query_key.v].format,
                                                  "number")).v],
                       MetricRenderer_build_query_params(call.clock, call.filters,
                                                         QueryStore[call.query_key.v]))

\* lines 105-116 of render, figure being what _create_chart returned
ChartRecord(query_config, current_label, show_table_toggle, df, figure) ==
    IF "error" \in DOMAIN figure
    THEN ErrorRecord(figure.error, current_label)
    ELSE [figure |-> figure, data |-> df, label |-> current_label,
          description |-> DictGetDefault(query_config.description, "").v,
          show_table_toggle |-> show_table_toggle]

\* lines 102-116 of ChartRenderer.render, config being what _get_chart_config gave
ChartAfterConfig(query_config, current_label, r, config) ==
    IF ~Returned(config)
    THEN Outcome(Boundary(config.exc, current_label, {}), r.session, r.cache, r.sent)
    ELSE Outcome(Ret(ChartRecord(query_config, current_label, FALSE, r.out.val,
                                 create_chart(r.out.val, config.val).result),
                     {}),
                 r.session, r.cache, r.sent)

\* the keys 'error' and 'last_error' of st.session_state after execute_query
\* has run: its handlers (query_executor.py:131-138) log the failure and
\* return an empty table, and write no key of st.session_state
SessionStateAfter(r) == [error |-> Absent, last_error |-> Absent]

\* lines 80-87: the record for an empty table
EmptyTableRecord(session_state, current_label) ==
    IF session_state.error.tag # "absent"
       /\ DictGetDefault(session_state.last_error, <<>>).v = <<"Query Execution Error">>
    THEN ErrorRecord(DictGetDefault(session_state.last_error, <<"unexpected query error">>).v,
                     current_label)
    ELSE ErrorRecord(<<"no data">>, current_label)

\* lines 78-100 of ChartRenderer.render, r being what the query left
ChartAfterQuery(query_config, current_label, r) ==
    IF ~Returned(r.out)
    THEN Outcome(Boundary(r.out.exc, current_label, r.out.log), r.session, r.cache, r.sent)
    ELSE IF IsEmpty(r.out.val)
    THEN Outcome(Ret(EmptyTableRecord(SessionStateAfter(r), current_label), {}), r.session,
                 r.cache, r.sent)
    ELSE ChartAfterConfig(query_config, current_label, r,
                          get_chart_config(query_config.chart,
                                           handle_toggle_options(query_config.chart, None),
                                           NoOverrides))

\* lines 73-76, params being what _build_query_params gave
ChartQuery(call, query_config, current_label, params) ==
    IF ~Returned(params)
    THEN Outcome(Boundary(params.exc, current_label, params.log), call.session,
                 call.cache, <<>>)
    ELSE IF query_config.query.tag = "absent"
    THEN Outcome(Boundary("KeyError", current_label, {}), call.session, call.cache, <<>>)
    ELSE ChartAfterQuery(query_config, current_label,
                         execute_query(call.clock, call.session, call.cache,
                                       call.connect_ok, ConfigStr(query_config.query.v),
                                       ParamsAsFilters(params.val), call.answer))

\* ChartRenderer.render, with the chart's overrides left at None
ChartRenderer_render(call) ==
    IF ~(call.query_key.tag = "val" /\ call.query_key.v \in DOMAIN QueryStore)
    THEN Outcome(Ret(ErrorRecord(<<"not found">>, LabelOr(call.label, call.query_key)),
                     {"error"}),
                 call.session, call.cache, <<>>)
    ELSE ChartQuery(call, QueryStore[call.query_key.v],
                    OrElse(call.label,
                           DictGetDefault(QueryStore[call.query_key.v].label, "Chart")).v,
                    ChartRenderer_build_query_params(call.clock, call.filters,
                                                     QueryStore[call.query_key.v]))

\* the items of the configuration list given to render_multiple: a key, a
\* dictionary of render arguments, or a value of another type
StrItem(query_key) ==
    [type |-> "str", query_key |-> Val(query_key), label |-> Absent,
     delta_query_key |-> Absent]
DictItem(query_key, label, delta_query_key) ==
    [type |-> "dict", query_key |-> query_key, label |-> label,
     delta_query_key |-> delta_query_key]
OtherItem == [type |-> "other"]

\* the record appended for an item without 'query_key' (line 165 / 164)
MissingKeyRecord(renderer) ==
    ErrorRecord(<<"missing query_key">>,
                IF renderer = "metric" THEN "Unnamed Metric" ELSE "Unnamed Chart")

\* lines 168-176 / 167-180: the render call made for an item. env: the clock,
\* whether a session can be created, the Filter State and what the warehouse
\* answers; state: the session and the cache the loop has reached.
ItemCall(env, item, state) ==
    [clock |-> env.clock, session |-> state.session, cache |-> state.cache,
     connect_ok |-> env.connect_ok, query_key |-> item.query_key, filters |-> env.filters,
     label |-> DictGet(item.label), format_type |-> None,
     delta_query_key |-> DictGet(item.delta_query_key),
     answer |-> env.answer, answer_previous |-> env.answer_previous]

\* self.render of the renderer
RenderOf(renderer, call) ==
    IF renderer = "metric" THEN MetricRenderer_render(call) ELSE ChartRenderer_render(call)

RECURSIVE RenderItems(_, _, _, _)

\* lines 177 / 181: the record is appended and the loop goes on; an exception
\* render let through leaves the loop and render_multiple
AfterItem(renderer, env, items, state, r) ==
    IF ~Returned(r.out)
    THEN Outcome(r.out, r.session, r.cache, state.sent \o r.sent)
    ELSE RenderItems(renderer, env, Tail(items),
                     [session |-> r.session, cache |-> r.cache,
                      sent |-> state.sent \o r.sent,
                      records |-> Append(state.records, r.out.val)])

\* the loop of render_multiple over the items left
RenderItems(renderer, env, items, state) ==
    IF items = <<>>
    THEN Outcome(Ret(state.records, {}), state.session, state.cache, state.sent)
    ELSE IF Head(items).type = "other"
    THEN RenderItems(renderer, env, Tail(items), state)
    ELSE IF ~Truthy(DictGet(Head(items).query_key))
    THEN RenderItems(renderer, env, Tail(items),
                     [state EXCEPT !.records = Append(@, MissingKeyRecord(renderer))])
    ELSE AfterItem(renderer, env, items, state,
                   RenderOf(renderer, ItemCall(env, Head(items), state)))

\* MetricRenderer.render_multiple and ChartRenderer.render_multiple
render_multiple(renderer, env, configs) ==
    RenderItems(renderer, env, configs,
                [session |-> env.session, cache |-> env.cache, sent |-> <<>>,
                 records |-> <<>>])

----------------------------------------------------------------------------
(* Inputs *)

\* dates around which the current date is drawn: month ends, a leap day, a year start
BaseDates ==
    {DaysFromCivil(2024, 3, 31), DaysFromCivil(2024, 2, 29), DaysFromCivil(2025, 1, 1),
     DaysFromCivil(2025, 3, 30), DaysFromCivil(2025, 7, 31)}

StartDays == {b - k : b \in BaseDates, k \in 0..MaxDayShift}

\* noon of a day
Noon(day) == day * 86400 + 43200

BoundedSeq(S, n) == UNION {[1..k -> S] : k \in 0..n}

Alphabet == {"b", "'", " "}

ObjectValueStrings ==
    BoundedSeq(Alphabet, MaxValLen)
        \cup {Str_All, Str_all, <<"A", "L", "L">>, <<" ", "A", "l", "l", " ">>,
              <<"o", "'", "b">>, <<"'", "'", "'">>}

ObjectValueEntries == {Absent, None} \cup {Val(s) : s \in ObjectValueStrings}

ObjectTypeEntries ==
    {Absent, None} \cup {Val(t) : t \in ColMapKeys \cup {"all", "schema"}}

DateFilterKeys == FixedKeys \cup {"1_month", "custom", "30_days"}

DateFilterArgs == {None} \cup {Val(k) : k \in DateFilterKeys}

CustomDates(clock) == {None} \cup {Val(Today(clock) + d) : d \in {-10, -3, 0}}

ApplyFlagEntries == {Absent, Val(TRUE), Val(FALSE)}

\* a Filter State as the renderers receive it
FilterState(df, cs, ce, ot, ov) ==
    [date_filter |-> df, custom_start |-> cs, custom_end |-> ce,
     object_type |-> ot, object_value |-> ov]

----------------------------------------------------------------------------
(* Calls of the pure functions: the arguments are drawn by the initial state *)

Idle ==
    /\ ticks = 0
    /\ session = "none"
    /\ cache = {}

InitDateRange ==
    /\ Idle
    /\ now \in {Noon(d) : d \in StartDays}
    /\ \E df \in DateFilterArgs, cs \in CustomDates(now), ce \in CustomDates(now) :
           last = [op |-> "pending", date_filter |-> df, custom_start |-> cs,
                   custom_end |-> ce]

CallGetDateRange ==
    /\ last.op = "pending"
    /\ last' = [op |-> "get_date_range",
                date_filter |-> last.date_filter,
                custom_start |-> last.custom_start,
                custom_end |-> last.custom_end,
                today |-> Today(now),
                out |-> get_date_range(now, last.date_filter, last.custom_start,
                                       last.custom_end)]
    /\ UNCHANGED <<now, ticks, session, cache>>

\* get_date_range over every key and custom bound, from every start day
SpecDateRange == InitDateRange /\ [][CallGetDateRange]_vars

\* the query parameter builders over every Filter State
ParamsDateFilters == {Absent, None, Val("7_days"), Val("1_month"), Val("custom")}

ParamsCustomDates(clock) == {Absent, Val(Today(clock) - 3)}

InitParams ==
    /\ Idle
    /\ now = Noon(DaysFromCivil(2025, 3, 30))
    /\ \E df \in ParamsDateFilters, cs \in ParamsCustomDates(now),
          ce \in ParamsCustomDates(now), ot \in ObjectTypeEntries,
          ov \in ObjectValueEntries, ap \in ApplyFlagEntries :
           last = [op |-> "pending",
                   filters |-> FilterState(df, cs, ce, ot, ov),
                   query_config |-> [apply_object_filter |-> ap]]

CallMetricBuildQueryParams ==
    /\ last.op = "pending"
    /\ last' = [op |-> "build_query_params",
                renderer |-> "metric",
                filters |-> last.filters,
                query_config |-> last.query_config,
                today |-> Today(now),
                out |-> MetricRenderer_build_query_params(now, last.filters,
                                                          last.query_config)]
    /\ UNCHANGED <<now, ticks, session, cache>>

CallChartBuildQueryParams ==
    /\ last.op = "pending"
    /\ last' = [op |-> "build_query_params",
                renderer |-> "chart",
                filters |-> last.filters,
                query_config |-> last.query_config,
                today |-> Today(now),
                out |-> ChartRenderer_build_query_params(now, last.filters,
                                                         last.query_config)]
    /\ UNCHANGED <<now, ticks, session, cache>>

NextParams == CallMetricBuildQueryParams \/ CallChartBuildQueryParams

SpecParams == InitParams /\ [][NextParams]_vars

----------------------------------------------------------------------------
(* The dashboard process: the clock, direct calls of execute_query *)

UserQuoted == <<"o", "'", "b">>

\* the answers of the warehouse to a SQL text
WarehouseAnswers ==
    {[kind |-> "table", table |-> CountTable(150)],
     [kind |-> "table", table |-> CountTable(100)],
     [kind |-> "table", table |-> EmptyTable],
     [kind |-> "session_error"],
     [kind |-> "error"]}

\* the date strings a caller passes on the day of the call
CallerDates(clock) ==
    ExecFilters(Val(Strftime(Today(clock) - 7)), Val(Strftime(Today(clock))),
                Absent, Absent, Absent)

\* the calls of execute_query the process repeats: as the renderers make it
\* (a str and the built parameters), and as its docstring describes it (a dict
\* and the filters)
ExecuteCalls(clock) ==
    {<<ConfigStr(TplObject),
       Val([CallerDates(clock) EXCEPT !.object_filter = Val(<<>>)])>>,
     <<ConfigDict(Val(TplObject), Val(TRUE)),
       Val([CallerDates(clock) EXCEPT !.object_filter = Val(<<>>)])>>,
     <<ConfigDict(Absent, Val(TRUE)), None>>,
     <<ConfigDict(Val(TplUser), Val(TRUE)),
       Val([CallerDates(clock) EXCEPT !.object_type = Val("user"),
                                      !.object_value = Val(UserQuoted)])>>}

Init ==
    /\ Idle
    /\ now = Noon(DaysFromCivil(2025, 3, 30))
    /\ last = [op |-> "init"]

\* time passes
Tick ==
    /\ ticks < MaxTicks
    /\ now' = now + TickSeconds
    /\ ticks' = ticks + 1
    /\ UNCHANGED <<session, cache, last>>

\* what the cache holds for a key before a call: each entry's table and age
PriorEntries(c, key, clock) ==
    {[table |-> e.table, age |-> clock - e.at] : e \in {x \in c : x.key = key}}

ExecuteQuery(call, connect_ok, answer) ==
    LET r == execute_query(now, session, cache, connect_ok, call[1], call[2], answer)
    IN /\ session' = r.session
       /\ cache' = r.cache
       /\ last' = [op |-> "execute_query",
                   query_config |-> call[1],
                   filters |-> call[2],
                   connect_ok |-> connect_ok,
                   answer |-> answer,
                   prior |-> PriorEntries(cache, <<call[1], call[2]>>, now),
                   had_session |-> session = "created",
                   hit |-> r.hit,
                   sent |-> r.sent,
                   out |-> r.out]
       /\ UNCHANGED <<now, ticks>>

Next ==
    \/ Tick
    \/ \E call \in ExecuteCalls(now), connect_ok \in BOOLEAN, answer \in WarehouseAnswers :
           ExecuteQuery(call, connect_ok, answer)

Spec == Init /\ [][Next]_vars

----------------------------------------------------------------------------
(* One call of execute_query on an empty cache, over every shape of argument *)

Templates == {TplObject, TplUser, TplPlain, TplDates}

ExecuteConfigs ==
    {ConfigStr(t) : t \in {TplObject, TplUser}}
        \cup {ConfigDict(q, ap) : q \in {Absent, None} \cup {Val(t) : t \in Templates},
                                  ap \in ApplyFlagEntries}

ExecuteFilters(clock) ==
    {None, Val(NoFilters)}
        \cup {Val([CallerDates(clock) EXCEPT !.object_type = ot, !.object_value = ov]) :
                 ot \in {Absent, Val("user"), Val("role")}, ov \in ObjectValueEntries}

InitExecute ==
    /\ ticks = 0
    /\ cache = {}
    /\ now = Noon(DaysFromCivil(2025, 3, 30))
    /\ session \in {"none", "created"}
    /\ \E qc \in ExecuteConfigs, f \in ExecuteFilters(now), connect_ok \in BOOLEAN,
          answer \in WarehouseAnswers :
           last = [op |-> "pending", query_config |-> qc, filters |-> f,
                   connect_ok |-> connect_ok, answer |-> answer]

ExecutePending ==
    /\ last.op = "pending"
    /\ ExecuteQuery(<<last.query_config, last.filters>>, last.connect_ok, last.answer)

SpecExecute == InitExecute /\ [][ExecutePending]_vars

----------------------------------------------------------------------------
(* One render of a metric card or of a chart, over the query store *)

\* the keys given: those of the store, one it does not hold, and None, which
\* is no string
RenderKeys == {Val(k) : k \in DOMAIN QueryStore} \cup {Val("missing"), None}

RenderFilters(clock) ==
    {FilterState(df, Absent, Absent, ot, ov) :
        df \in {Absent, Val("7_days"), Val("1_month")},
        ot \in {Absent, Val("all"), Val("user"), Val("role")},
        ov \in {Absent, Val(Str_All), Val(<<"b">>), Val(UserQuoted)}}
      \cup {FilterState(Val("custom"), Val(Today(clock) - 3), Val(Today(clock)),
                        Val("user"), Val(<<"b">>))}
      \cup {NotAMapping}

RenderAnswers ==
    {[kind |-> "table", table |-> CountTable(150)],
     [kind |-> "table", table |-> CountTable(0)],
     [kind |-> "table", table |-> EmptyTable],
     [kind |-> "error"]}

PreviousAnswers ==
    {[kind |-> "table", table |-> CountTable(100)],
     [kind |-> "table", table |-> CountTable(0)],
     [kind |-> "table", table |-> EmptyTable]}

InitRender ==
    /\ ticks = 0
    /\ cache = {}
    /\ now = Noon(DaysFromCivil(2025, 3, 30))
    /\ session \in {"none", "created"}
    /\ \E key \in RenderKeys, f \in RenderFilters(now), with_delta \in BOOLEAN,
          connect_ok \in BOOLEAN, cur \in RenderAnswers, prev \in PreviousAnswers :
           last = [op |-> "pending", query_key |-> key, filters |-> f,
                   delta_query_key |-> IF with_delta THEN key ELSE None,
                   connect_ok |-> connect_ok, answer |-> cur, answer_previous |-> prev]

Rendered(renderer, r) ==
    /\ session' = r.session
    /\ cache' = r.cache
    /\ last' = [op |-> "render",
                renderer |-> renderer,
                query_key |-> last.query_key,
                filters |-> last.filters,
                delta_query_key |-> last.delta_query_key,
                connect_ok |-> last.connect_ok,
                answer |-> last.answer,
                answer_previous |-> last.answer_previous,
                had_session |-> session = "created",
                today |-> Today(now),
                sent |-> r.sent,
                out |-> r.out]
    /\ UNCHANGED <<now, ticks>>

\* the call the pending render makes
RenderCall ==
    [clock |-> now, session |-> session, cache |-> cache, connect_ok |-> last.connect_ok,
     query_key |-> last.query_key, filters |-> last.filters, label |-> None,
     format_type |-> None, delta_query_key |-> last.delta_query_key,
     answer |-> last.answer, answer_previous |-> last.answer_previous]

MetricRender ==
    /\ last.op = "pending"
    /\ Rendered("metric", MetricRenderer_render(RenderCall))

ChartRender ==
    /\ last.op = "pending"
    /\ last.delta_query_key = None
    /\ last.answer_previous = [kind |-> "table", table |-> CountTable(100)]
    /\ Rendered("chart", ChartRenderer_render(RenderCall))

NextRender == MetricRender \/ ChartRender

SpecRender == InitRender /\ [][NextRender]_vars

----------------------------------------------------------------------------
(* The metric value functions: a value is extracted and formatted, parsed    *)
(* back, and compared with the value of the prior period                     *)

\* the numbers a metric query returns: zero, whole and fractional values on
\* both sides of every unit threshold, a negative value
MetricNumbers ==
    {Dec(n) : n \in {0, 1, 45, 50, 59, 60, 120, 150, 500, 999, 1000, 1234, 1500, 3599, 3600,
                     7200, 2500000, -1500}}
        \cup {[m |-> 5, e |-> -1], [m |-> 455, e |-> -1], [m |-> 12346, e |-> -3]}
        \cup {Dec(999999), [m |-> 10005, e |-> -1]}

\* three billion, which only the format 'number' abbreviates
Billions == [m |-> 3, e |-> 9]

\* one below a billion
NearlyBillion == Dec(999999999)

\* 999.999
NearlyThousand == [m |-> 999999, e |-> -3]

\* numbers drawn for the format 'number' only
NumberFormatOnly == {Billions, NearlyBillion, NearlyThousand}

\* a table of one row and one column
OneCellTable(cell) ==
    [columns |-> <<[name |-> "METRIC_VALUE", numeric |-> cell.kind = "num"]>>,
     rows |-> <<<<cell>>>>]

\* a name, a total and a second number, in two rows
NamedTotalsTable(total) ==
    [columns |-> <<[name |-> "ROLE_NAME", numeric |-> FALSE],
                   [name |-> "TOTAL_QUERIES", numeric |-> TRUE],
                   [name |-> "TOTAL_EXECUTION_TIME_MS", numeric |-> TRUE]>>,
     rows |-> <<<<TextCell(<<"b", "a", "d">>), total, NumCell(Dec(7))>>,
                <<TextCell(<<"o", "k">>), NumCell(Dec(45)), NumCell(Dec(50))>>>>]

\* two columns of text, in two rows
NamesTable(first) ==
    [columns |-> <<[name |-> "ROLE_NAME", numeric |-> FALSE],
                   [name |-> "USER_NAME", numeric |-> FALSE]>>,
     rows |-> <<<<first, TextCell(<<"4", "5">>)>>,
                <<TextCell(<<"o", "k">>), NullCell>>>>]

\* tables of several columns and rows: the numeric column is not the first
\* one, or there is none
WideTables ==
    {NamedTotalsTable(total) : total \in {NumCell(Dec(1500)), NullCell}}
        \cup {NamesTable(first) : first \in {TextCell(<<"b", "a", "d">>), NullCell,
                                              TextCell(<<"1", "5", "0", "0">>)}}

\* the tables a metric query returns: a number, a NULL, a text, no row,
\* several columns
MetricTables ==
    {OneCellTable(NumCell(x)) : x \in MetricNumbers}
        \cup {OneCellTable(cell) : cell \in {NullCell, TextCell(<<"b", "a", "d">>)}}
        \cup {EmptyTable}
        \cup WideTables

\* the numbers of the two periods a delta is computed from
DeltaNumbers ==
    {Dec(n) : n \in {0, 50, 100, 150, -50}} \cup {[m |-> 5, e |-> -1]}

DeltaTables ==
    {OneCellTable(NumCell(x)) : x \in DeltaNumbers}
        \cup {OneCellTable(cell) : cell \in {NullCell, TextCell(<<"b", "a", "d">>)}}
        \cup {EmptyTable}

FormatTypes == {"number", "percentage", "currency", "duration"}

MaxFormatTypes == 4

\* the format types drawn: the four documented ones and an unknown one
FormatTypesDrawn ==
    IF MaxFormatTypes >= 5 THEN FormatTypes \cup {"duration_seconds"} ELSE FormatTypes

InitMetricValue ==
    /\ Idle
    /\ now = Noon(DaysFromCivil(2025, 3, 30))
    /\ \E format_type \in FormatTypesDrawn :
           \/ /\ format_type = "number"
              /\ \E x \in NumberFormatOnly :
                     last = [op |-> "pending", df |-> OneCellTable(NumCell(x)),
                             df_previous |-> EmptyTable, format_type |-> format_type]
           \/ \E df \in MetricTables :
                  last = [op |-> "pending", df |-> df, df_previous |-> EmptyTable,
                          format_type |-> format_type]
           \/ \E df \in DeltaTables, previous \in DeltaTables :
                  last = [op |-> "pending", df |-> df, df_previous |-> previous,
                          format_type |-> format_type]

\* lines 69-70 and 96: the value is extracted, formatted and parsed back
CallExtractAndParse ==
    /\ last.op = "pending"
    /\ last.df_previous = EmptyTable
    /\ last' = [op |-> "extract_parse",
                df |-> last.df,
                format_type |-> last.format_type,
                value |-> extract_metric_value(last.df, last.format_type),
                parsed |-> parse_formatted_value(
                               Val(extract_metric_value(last.df, last.format_type)))]
    /\ UNCHANGED <<now, ticks, session, cache>>

\* lines 68-70 and 90-117: the delta of the current and of the prior table
CallDelta ==
    /\ last.op = "pending"
    /\ ~IsEmpty(last.df_previous)
    /\ last' = [op |-> "delta",
                format_type |-> last.format_type,
                value |-> extract_metric_value(last.df, last.format_type),
                comparison_value |-> extract_metric_value(last.df_previous,
                                                          last.format_type),
                delta_value |-> DeltaValue(
                                    extract_metric_value(last.df, last.format_type),
                                    extract_metric_value(last.df_previous,
                                                         last.format_type))]
    /\ UNCHANGED <<now, ticks, session, cache>>

NextMetricValue == CallExtractAndParse \/ CallDelta

SpecMetricValue == InitMetricValue /\ [][NextMetricValue]_vars

----------------------------------------------------------------------------
(* The chart configuration of one chart: base fields, toggle variants, the   *)
(* selected toggle and the overrides of the call                             *)

\* a Query Definition's chart fields: a bar chart or a heatmap or no kind, over
\* columns A, C, V
BaseCharts(toggle_options) ==
    {ChartDefinition(chart_type, x_col, y_col, value_col, Absent, hover_data, toggle_options) :
        chart_type \in {Absent, Val("bar"), Val("heatmap")},
        x_col \in {Absent, Val("A")},
        y_col \in {Absent, Val("C")},
        value_col \in {Absent, Val("V")},
        hover_data \in {Absent, Val({"A"})}}

\* the toggle variant that sets the y column to B, and one that sets the kind
\* and the x column
ToggleByB == ToggleOption("by_b", ChartFieldValues(Absent, Absent, Val("B"), Absent, Absent, Absent))
ToggleByD ==
    ToggleOption("by_d", ChartFieldValues(Val("line"), Val("D"), Absent, Absent, Absent, Absent))

ToggleOptionsDrawn == {<<>>, <<ToggleByB>>, <<ToggleByB, ToggleByD>>}

\* the selected toggle: none, one of the variants, one no definition has
CurrentToggles == {"default", "by_b", "by_d", "stale"}

OverridesDrawn ==
    {ChartFieldValues(chart_type, x_col, y_col, None, None, None) :
        chart_type \in {None, Val("line"), Val("pie")},
        x_col \in {None, Val("X")},
        y_col \in {None, Val("Y")}}

InitChartConfig ==
    /\ Idle
    /\ now = Noon(DaysFromCivil(2025, 3, 30))
    /\ \E toggle_options \in ToggleOptionsDrawn :
       \E chart \in BaseCharts(toggle_options), current_toggle \in CurrentToggles,
          overrides \in OverridesDrawn :
           last = [op |-> "pending", chart |-> chart, current_toggle |-> current_toggle,
                   overrides |-> overrides]

\* lines 98-100: render resolves the configuration of the chart
CallGetChartConfig ==
    /\ last.op = "pending"
    /\ last' = [op |-> "get_chart_config",
                chart |-> last.chart,
                current_toggle |-> last.current_toggle,
                overrides |-> last.overrides,
                out |-> get_chart_config(last.chart, last.current_toggle, last.overrides)]
    /\ UNCHANGED <<now, ticks, session, cache>>

SpecChartConfig == InitChartConfig /\ [][CallGetChartConfig]_vars

----------------------------------------------------------------------------
(* The figure of one chart: a Result Table and a resolved configuration      *)

\* the columns a chart query returns: axis A and B, value V, color K, hover H
AllChartColumns == <<"A", "B", "V", "K", "H">>

\* a table of one row over the columns of AllChartColumns that `keep` holds
ChartTable(keep) ==
    [columns |-> [i \in 1..Len(SelectSeq(AllChartColumns, LAMBDA c : c \in keep)) |->
                     [name |-> SelectSeq(AllChartColumns, LAMBDA c : c \in keep)[i],
                      numeric |-> FALSE]],
     rows |-> <<[i \in 1..Len(SelectSeq(AllChartColumns, LAMBDA c : c \in keep)) |->
                    TextCell(<<"b">>)]>>]

\* the tables drawn: every column, one column missing, only the x column
ChartTables ==
    {ChartTable({"A", "B", "V", "K", "H"} \ {c}) : c \in {"", "A", "B", "V", "K", "H"}}
        \cup {ChartTable({"A"})}

\* the chart kinds drawn: supported ones, one in capitals, one not supported
ChartKinds ==
    {"bar", "line", "histogram", "pie", "heatmap", "treemap", "table", "Heatmap", "sunburst"}

\* the resolved configurations drawn
ChartConfigs ==
    {ChartFieldValues(Val(chart_type), Val("A"), y_col, value_col, color_col, Val(hover_data)) :
        chart_type \in ChartKinds,
        y_col \in {None, Val("B")},
        value_col \in {None, Val("V")},
        color_col \in {None, Val("K")},
        hover_data \in {{}, {"H"}, {"A", "H"}}}

InitCreateChart ==
    /\ Idle
    /\ now = Noon(DaysFromCivil(2025, 3, 30))
    /\ \E df \in ChartTables, config \in ChartConfigs :
           last = [op |-> "pending", df |-> df, config |-> config]

\* lines 102-116 of render: the figure is created and the record is built
CallCreateChart ==
    /\ last.op = "pending"
    /\ last' = [op |-> "create_chart",
                columns |-> ColumnNames(last.df),
                df |-> last.df,
                config |-> last.config,
                created |-> create_chart(last.df, last.config),
                record |-> ChartRecord(QueryStore["top_roles_by_total_queries"], "Chart",
                                       FALSE, last.df,
                                       create_chart(last.df, last.config).result)]
    /\ UNCHANGED <<now, ticks, session, cache>>

SpecCreateChart == InitCreateChart /\ [][CallCreateChart]_vars

----------------------------------------------------------------------------
(* One call of render_multiple over a list of configuration items            *)

\* the longest configuration list drawn
MaxItems == 3

\* the items drawn: keys of the store, a key it does not hold, a dictionary
\* with overrides, a dictionary without 'query_key', a value that is neither
ItemsDrawn ==
    {StrItem("queries_by_role"), StrItem("missing"),
     DictItem(Val("total_queries_run"), Val("Queries"), Absent),
     DictItem(Absent, Val("Queries"), Absent),
     OtherItem}

ConfigLists == UNION {[1..n -> ItemsDrawn] : n \in 0..MaxItems}

InitRenderMultiple ==
    /\ ticks = 0
    /\ cache = {}
    /\ now = Noon(DaysFromCivil(2025, 3, 30))
    /\ session \in {"none", "created"}
    /\ \E configs \in ConfigLists, connect_ok \in BOOLEAN,
          f \in {FilterState(Absent, Absent, Absent, Absent, Absent),
                 FilterState(Val("7_days"), Absent, Absent, Val("role"), Val(<<"b">>))},
          cur \in {[kind |-> "table", table |-> CountTable(150)], [kind |-> "error"]} :
           last = [op |-> "pending", configs |-> configs, filters |-> f,
                   connect_ok |-> connect_ok, answer |-> cur]

\* the environment of the pending call
MultipleEnv(sess) ==
    [clock |-> now, session |-> sess, cache |-> {}, connect_ok |-> last.connect_ok,
     filters |-> last.filters, answer |-> last.answer,
     answer_previous |-> [kind |-> "table", table |-> CountTable(100)]]

\* the items of a list that are a string or a mapping
StrOrDict(configs) == SelectSeq(configs, LAMBDA item : item.type \in {"str", "dict"})

\* render_multiple in the state the call begins in: at 0 over the whole list,
\* at i over the i-th string or mapping item as the only item
Runs(renderer, env, configs) ==
    [i \in 0..Len(StrOrDict(configs)) |->
        render_multiple(renderer, env,
                        IF i = 0 THEN configs ELSE <<StrOrDict(configs)[i]>>)]

\* the call has been made; alone: what each item gets without its siblings
RenderedMultiple(renderer, runs) ==
    /\ session' = runs[0].session
    /\ cache' = runs[0].cache
    /\ last' = [op |-> "render_multiple",
                renderer |-> renderer,
                configs |-> last.configs,
                filters |-> last.filters,
                connect_ok |-> last.connect_ok,
                answer |-> last.answer,
                had_session |-> session = "created",
                sent |-> runs[0].sent,
                out |-> runs[0].out,
                alone |-> [i \in 1..Len(StrOrDict(last.configs)) |-> runs[i].out]]
    /\ UNCHANGED <<now, ticks>>

MetricRenderMultiple ==
    /\ last.op = "pending"
    /\ RenderedMultiple("metric", Runs("metric", MultipleEnv(session), last.configs))

ChartRenderMultiple ==
    /\ last.op = "pending"
    /\ RenderedMultiple("chart", Runs("chart", MultipleEnv(session), last.configs))

NextRenderMultiple == MetricRenderMultiple \/ ChartRenderMultiple

SpecRenderMultiple == InitRenderMultiple /\ [][NextRenderMultiple]_vars

----------------------------------------------------------------------------
(* What the renderers make of the table execute_query returned               *)

\* the keys whose Query Definition has a query
KeysWithQuery == {k \in DOMAIN QueryStore : QueryStore[k].query.tag = "val"}

\* what the warehouse does with the SQL: rows, no row, a failure
ExecutionAnswers ==
    {[kind |-> "table", table |-> CountTable(n)] : n \in {0, 150}}
        \cup {[kind |-> "table", table |-> ChartTable({"A", "B"})],
              [kind |-> "table", table |-> EmptyTable],
              [kind |-> "error"]}

\* execute_query called with a Query Definition and the Query Parameters
QueryOutcome(clock, tpl, answer) ==
    execute_query(clock, "created", {}, TRUE, ConfigDict(Val(tpl), Val(FALSE)),
                  Val(ExecFilters(Val(Strftime(Today(clock) - 7)), Val(Strftime(Today(clock))),
                                  Absent, Absent, Val(<<>>))),
                  answer)

InitAfterQuery ==
    /\ Idle
    /\ now = Noon(DaysFromCivil(2025, 3, 30))
    /\ \E key \in KeysWithQuery, label \in {None, Val("Shown Label")},
          tpl \in {TplPlain, TplDates, TplObject}, answer \in ExecutionAnswers :
           last = [op |-> "pending", query_key |-> key, label |-> label, answer |-> answer,
                   executed |-> QueryOutcome(now, tpl, answer)]

AfterQuery(renderer, current_label, r) ==
    /\ last' = [op |-> "after_query",
                renderer |-> renderer,
                query_key |-> last.query_key,
                current_label |-> current_label,
                answer |-> last.answer,
                executed |-> last.executed,
                out |-> r.out]
    /\ UNCHANGED <<now, ticks, session, cache>>

\* metric_renderer.py:68-126 on the table returned, without a delta query
MetricAfterExecution ==
    /\ last.op = "pending"
    /\ AfterQuery("metric",
                  OrElse(last.label, DictGetDefault(QueryStore[last.query_key].label, "Metric")).v,
                  MetricAfterCurrent(
                      [delta_query_key |-> None],
                      [query_config |-> QueryStore[last.query_key],
                       current_label |->
                           OrElse(last.label,
                                  DictGetDefault(QueryStore[last.query_key].label, "Metric")).v,
                       format_type |->
                           DictGetDefault(QueryStore[last.query_key].format, "number").v],
                      last.executed))

\* chart_renderer.py:78-116 on the table returned
ChartAfterExecution ==
    /\ last.op = "pending"
    /\ AfterQuery("chart",
                  OrElse(last.label, DictGetDefault(QueryStore[last.query_key].label, "Chart")).v,
                  ChartAfterQuery(
                      QueryStore[last.query_key],
                      OrElse(last.label,
                             DictGetDefault(QueryStore[last.query_key].label, "Chart")).v,
                      last.executed))

NextAfterQuery == MetricAfterExecution \/ ChartAfterExecution

SpecAfterQuery == InitAfterQuery /\ [][NextAfterQuery]_vars

----------------------------------------------------------------------------
(* CommonUI.render_filters: the filter bar of a dashboard page               *)

\* what the widgets of the filter bar hold: the selected date range, the two
\* date inputs, the selected object type and object value
Widgets(date_filter, custom_start, custom_end, object_type, object_value) ==
    [date_filter |-> date_filter, custom_start |-> custom_start,
     custom_end |-> custom_end, object_type |-> object_type,
     object_value |-> object_value]

\* QueryExecutor.get_object_values: the names the warehouse lists
get_object_values(names) == names

\* lines 204-205 and 215-238: 'All' is offered first, and a selection that is
\* not offered falls back to 'All'
SelectedObjectValue(w, object_values) ==
    IF w.object_value \in {Str_All} \cup object_values THEN w.object_value ELSE Str_All

\* the dictionary `filters` when render_filters reaches its last line
BuiltFilters(today, w, names) ==
    FilterState(Val(w.date_filter),
                IF w.date_filter # "custom" THEN Absent
                ELSE IF w.custom_start > w.custom_end THEN Val(today - 7)
                ELSE Val(w.custom_start),
                IF w.date_filter # "custom" THEN Absent
                ELSE IF w.custom_start > w.custom_end THEN Val(today)
                ELSE Val(w.custom_end),
                Val(w.object_type),
                Val(IF w.object_type = "all" THEN Str_All
                    ELSE SelectedObjectValue(w, get_object_values(names))))

\* CommonUI.render_filters with the widgets holding w. For an object type
\* other than 'all' the object values are fetched, which needs the session
\* (query_executor.py:152). The function body ends at line 250 without a
\* return statement: the value of the call is None.
render_filters(clock, sess, connect_ok, w, names) ==
    IF w.object_type # "all" /\ ~GetSession(sess, connect_ok)
    THEN [out |-> Raise("StopException", {"error"}), session |-> sess,
          built |-> FilterState(Val(w.date_filter), Absent, Absent, Val(w.object_type),
                                Val(Str_All))]
    ELSE [out |-> Ret(None, {}),
          session |-> IF w.object_type # "all" THEN "created" ELSE sess,
          built |-> BuiltFilters(Today(clock), w, names)]

\* what a page does with the value of render_filters: the User 360 page calls
\* filters.get (user_360_dashboard_new.py:44), the Roles 360 page hands it to
\* render_multiple (roles_360_dashboard.py:49)
PageFilters(page, out) ==
    IF ~Returned(out) THEN out
    ELSE IF page = "user" /\ out.val = NotAMapping THEN Raise("AttributeError", {})
    ELSE Ret(out.val, {})

\* the default object type of the page
DefaultObjectType(page) == IF page = "user" THEN "user" ELSE "role"

DateFilterOptions == {"1_day", "7_days", "1_month", "custom"}
ObjectTypeOptions == {"all", "user", "role"}

\* days, relative to today, the date inputs are set to
MaxDateInput == 1
DateInputs == (-2)..MaxDateInput

InitFilters ==
    /\ ticks = 0
    /\ cache = {}
    /\ session \in {"none", "created"}
    /\ now = Noon(DaysFromCivil(2025, 3, 30))
    /\ \E page \in {"user", "roles"}, connect_ok \in BOOLEAN, names \in {{}, {<<"b">>}} :
           last = [op |-> "pending", page |-> page, connect_ok |-> connect_ok,
                   names |-> names,
                   widgets |-> Widgets("7_days", Today(now) - 7, Today(now),
                                       DefaultObjectType(page), Str_All)]

\* the page script has run with the widgets holding w, r being what
\* render_filters left
Reran(w, r) ==
    /\ session' = r.session
    /\ last' = [op |-> "filters", page |-> last.page, connect_ok |-> last.connect_ok,
                names |-> last.names, widgets |-> w, built |-> r.built, out |-> r.out,
                passed |-> PageFilters(last.page, r.out)]
    /\ UNCHANGED <<now, ticks, cache>>

Rerun(w) == Reran(w, render_filters(now, session, last.connect_ok, w, last.names))

\* the page is opened
FirstRun ==
    /\ last.op = "pending"
    /\ Rerun(last.widgets)

\* the user selects a date range
SelectDateFilter ==
    /\ last.op = "filters"
    /\ \E d \in DateFilterOptions : Rerun([last.widgets EXCEPT !.date_filter = d])

\* the user sets the two date inputs of the custom range
PickCustomDates ==
    /\ last.op = "filters"
    /\ last.widgets.date_filter = "custom"
    /\ \E s \in DateInputs, e \in DateInputs :
           Rerun([last.widgets EXCEPT !.custom_start = Today(now) + s,
                                      !.custom_end = Today(now) + e])

\* the user selects an object type
SelectObjectType ==
    /\ last.op = "filters"
    /\ \E t \in ObjectTypeOptions : Rerun([last.widgets EXCEPT !.object_type = t])

\* the user selects an object value
SelectObjectValue ==
    /\ last.op = "filters"
    /\ last.widgets.object_type # "all"
    /\ \E v \in {Str_All} \cup last.names : Rerun([last.widgets EXCEPT !.object_value = v])

NextFilters ==
    \/ FirstRun
    \/ SelectDateFilter
    \/ PickCustomDates
    \/ SelectObjectType
    \/ SelectObjectValue

SpecFilters == InitFilters /\ [][NextFilters]_vars

----------------------------------------------------------------------------
(* The Query Parameters of the delta query: the period before the current    *)
(* one, for every date-range key                                             *)

\* metric_renderer.py:84, previous_period_filters being what
\* _get_previous_period_filters gave
PreviousParams(clock, previous_period_filters, delta_query_config) ==
    IF ~Returned(previous_period_filters) THEN previous_period_filters
    ELSE MetricRenderer_build_query_params(clock, previous_period_filters.val,
                                           delta_query_config)

InitPreviousPeriod ==
    /\ Idle
    /\ now \in {Noon(d) : d \in StartDays}
    /\ \E df \in DateFilterArgs \cup {Absent}, cs \in CustomDates(now) :
           last = [op |-> "pending",
                   filters |-> FilterState(df, IF cs = None THEN Absent ELSE cs,
                                           IF df = Val("custom") THEN Val(Today(now))
                                           ELSE Absent,
                                           Val("all"), Val(Str_All))]

\* lines 83-84 of MetricRenderer.render
CallPreviousPeriodParams ==
    /\ last.op = "pending"
    /\ last' = [op |-> "previous_period",
                filters |-> last.filters,
                today |-> Today(now),
                current |-> MetricRenderer_build_query_params(
                                now, last.filters, QueryStore["queries_by_role"]),
                out |-> PreviousParams(now, get_previous_period_filters(now, last.filters),
                                       QueryStore["queries_by_role"])]
    /\ UNCHANGED <<now, ticks, session, cache>>

SpecPreviousPeriod == InitPreviousPeriod /\ [][CallPreviousPeriodParams]_vars

----------------------------------------------------------------------------
(* One run of a dashboard page: the filter bar, the metric section and the   *)
(* first chart section, under the handler of main                            *)

\* the metric items of the page (roles_360_dashboard.py:41-47,
\* user_360_dashboard_new.py:57-66)
PageMetricConfigs(page) ==
    IF page = "user"
    THEN <<DictItem(Val("total_queries_run"), Absent, Val("total_queries_run"))>>
    ELSE <<StrItem("queries_by_role"),
           DictItem(Val("queries_by_role"), Absent, Val("queries_by_role"))>>

\* the chart items of the first chart section of the page
PageChartConfigs(page) == <<DictItem(Val("top_roles_by_total_queries"), Absent, Absent)>>

\* the keyword the page passes the number of columns of a grid by
GridKeyword(page, grid) ==
    IF page = "user"
    THEN (IF grid = "metric" THEN "metrics_per_row" ELSE "charts_per_row")
    ELSE "columns"

\* CommonUI.render_metric_grid and render_chart_grid called with the list and
\* one keyword argument: a keyword that is no parameter is a TypeError; else
\* an info box for an empty list, and per record an inline error message, a
\* metric card, a chart, or a warning for a record without figure
render_grid(grid, records, keyword) ==
    IF keyword # "columns" THEN Raise("TypeError", {})
    ELSE Ret([info |-> records = <<>>,
              slots |-> [i \in 1..Len(records) |->
                            IF "error" \in DOMAIN records[i] THEN "error"
                            ELSE IF grid = "metric" THEN "card"
                            ELSE IF "figure" \in DOMAIN records[i] THEN "chart"
                            ELSE "warning"]], {})

\* main.py:53-64: an exception of the page function is logged and shown by
\* st.error in place of the rest of the page; StopException is no Exception
\* and ends the script run
PageLeft(section, out) ==
    [at |-> IF out.exc = "StopException" THEN "stopped" ELSE "aborted",
     in |-> section, exc |-> out.exc]

PageEnv(sess, c, filters) ==
    [clock |-> now, session |-> sess, cache |-> c, connect_ok |-> last.connect_ok,
     filters |-> filters, answer |-> last.answer,
     answer_previous |-> [kind |-> "table", table |-> CountTable(100)]]

InitPage ==
    /\ ticks = 0
    /\ cache = {}
    /\ session \in {"none", "created"}
    /\ now = Noon(DaysFromCivil(2025, 3, 30))
    /\ \E page \in {"user", "roles"}, connect_ok \in BOOLEAN,
          d \in DateFilterOptions, t \in ObjectTypeOptions,
          cur \in {[kind |-> "table", table |-> CountTable(150)],
                   [kind |-> "table", table |-> EmptyTable], [kind |-> "error"]} :
           last = [op |-> "page", page |-> page, connect_ok |-> connect_ok,
                   answer |-> cur, at |-> "opened",
                   widgets |-> Widgets(d, Today(now) - 7, Today(now), t, Str_All)]

\* the page has got to `at`
PageAt(at, sess, c, more) ==
    /\ session' = sess
    /\ cache' = c
    /\ last' = ([at |-> at] @@ more) @@ last
    /\ UNCHANGED <<now, ticks>>

\* the filter bar is rendered, r being what render_filters left, and the
\* page takes up its value
PageAfterFilters(r) ==
    IF ~Returned(PageFilters(last.page, r.out))
    THEN PageAt(PageLeft("filters", PageFilters(last.page, r.out)).at, r.session, cache,
                [left |-> PageLeft("filters", PageFilters(last.page, r.out)),
                 filter_bar |-> Returned(r.out)])
    ELSE PageAt("filters", r.session, cache,
                [filters |-> r.out.val, filter_bar |-> TRUE])

\* user_360_dashboard_new.py:36-49, roles_360_dashboard.py:29-32
PageRenderFilters ==
    /\ last.op = "page"
    /\ last.at = "opened"
    /\ PageAfterFilters(render_filters(now, session, last.connect_ok, last.widgets,
                                       {<<"b">>}))

\* a section: the records of render_multiple are handed to the grid
PageAfterSection(section, at, r, grid) ==
    IF ~Returned(r.out)
    THEN PageAt(PageLeft(section, r.out).at, r.session, r.cache,
                [left |-> PageLeft(section, r.out)])
    ELSE IF ~Returned(grid)
    THEN PageAt(PageLeft(section, grid).at, r.session, r.cache,
                [left |-> PageLeft(section, grid)])
    ELSE PageAt(at, r.session, r.cache, [f \in {section} |-> grid.val])

PageSection(section, at, renderer, r) ==
    PageAfterSection(section, at, r,
                     IF Returned(r.out)
                     THEN render_grid(renderer, r.out.val, GridKeyword(last.page, renderer))
                     ELSE r.out)

\* user_360_dashboard_new.py:57-71, roles_360_dashboard.py:41-52
PageMetricSection ==
    /\ last.op = "page"
    /\ last.at = "filters"
    /\ PageSection("metrics", "metrics", "metric",
                   render_multiple("metric", PageEnv(session, cache, last.filters),
                                   PageMetricConfigs(last.page)))

\* user_360_dashboard_new.py:74-83, roles_360_dashboard.py:62-77
PageChartSection ==
    /\ last.op = "page"
    /\ last.at = "metrics"
    /\ PageSection("charts", "charts", "chart",
                   render_multiple("chart", PageEnv(session, cache, last.filters),
                                   PageChartConfigs(last.page)))

NextPage == PageRenderFilters \/ PageMetricSection \/ PageChartSection

SpecPage == InitPage /\ [][NextPage]_vars

----------------------------------------------------------------------------
(* The toggle buttons of the charts of a page: lines 89-100 of               *)
(* ChartRenderer.render for every chart whose query returned rows, over the  *)
(* script runs a click causes                                                *)

\* the chart fields of ROLES_360_QUERIES['queries_by_warehouse_for_role']
QueriesByWarehouseChart ==
    ChartDefinition(Val("bar"), Val("WAREHOUSE_NAME"), Val("QUERY_COUNT"), Absent, Absent,
                    Val({"QUERY_COUNT", "TOTAL_EXECUTION_TIME_MS"}),
                    <<ToggleOption("queries",
                                   ChartFieldValues(Absent, Absent, Val("QUERY_COUNT"),
                                                    Absent, Absent, Absent)),
                      ToggleOption("execution_time",
                                   ChartFieldValues(Absent, Absent,
                                                    Val("TOTAL_EXECUTION_TIME_MS"), Absent,
                                                    Absent, Absent))>>)

\* the chart fields of ROLES_360_QUERIES['role_grants_history']
RoleGrantsChart ==
    ChartDefinition(Val("line"), Val("GRANT_DATE"), Val("GRANTS_COUNT"), Absent, Absent,
                    Absent, <<>>)

\* render_multiple, lines 150 and 155: f"chart_multi_{i}", i counting from 0
ContainerKey(i) == <<"chart_multi", ToString(i)>>

\* render, line 90: container_key or f"chart_render_{query_key}"
ChartUniqueKey(container_key, query_key) ==
    IF container_key # None THEN container_key.v ELSE <<"chart_render", query_key>>

\* line 245: f"{chart_key}_current_toggle"
SessionStateKey(chart_key) == chart_key \o <<"current_toggle">>

\* line 261: f"{chart_key}_toggle_{key}"
ButtonKey(chart_key, key) == chart_key \o <<"toggle", key>>

\* what a script run has reached: st.session_state, the keys of the buttons
\* created in this run, the button whose click started the run (or None)
UiState(session_state, buttons, click) ==
    [session_state |-> session_state, buttons |-> buttons, click |-> click]

RECURSIVE ToggleButtons(_, _, _, _, _)

\* lines 254-268: the buttons of the toggle options from the k-th on, `shown`
\* being the options whose button this chart has created. A key another
\* button of the run has makes st.button raise; a click on a toggle that is
\* not the stored one stores it and st.rerun() ends the run.
ToggleButtons(toggle_options, chart_key, ui, k, shown) ==
    IF k > Len(toggle_options)
    THEN [ui |-> ui, shown |-> shown, result |-> "returned"]
    ELSE IF ButtonKey(chart_key, toggle_options[k].key) \in ui.buttons
    THEN [ui |-> ui, shown |-> shown, result |-> "DuplicateWidgetID"]
    ELSE IF /\ ui.click = Val(ButtonKey(chart_key, toggle_options[k].key))
            /\ ui.session_state[SessionStateKey(chart_key)] # toggle_options[k].key
    THEN [ui |-> [ui EXCEPT !.session_state[SessionStateKey(chart_key)]
                                = toggle_options[k].key],
          shown |-> shown \cup {toggle_options[k].key}, result |-> "rerun"]
    ELSE ToggleButtons(toggle_options, chart_key,
                       [ui EXCEPT !.buttons = @ \cup {ButtonKey(chart_key,
                                                                 toggle_options[k].key)}],
                       k + 1, shown \cup {toggle_options[k].key})

\* lines 240-251: no toggle declared, else the stored toggle is initialised
\* to the first option when the session holds none under the key
ToggleStateAtEntry(chart, chart_key, ui) ==
    IF chart.toggle_options = <<>> \/ SessionStateKey(chart_key) \in DOMAIN ui.session_state
    THEN ui
    ELSE [ui EXCEPT !.session_state
                        = (SessionStateKey(chart_key) :> chart.toggle_options[1].key) @@ @]

\* ChartRenderer._handle_toggle_options on st.session_state and the buttons
\* of the run
HandleToggleOptions(chart, chart_key, ui) ==
    IF chart.toggle_options = <<>>
    THEN [ui |-> ui, shown |-> {}, result |-> "returned"]
    ELSE ToggleButtons(chart.toggle_options, chart_key,
                       ToggleStateAtEntry(chart, chart_key, ui), 1, {})

\* lines 89-116 for one chart, t being what _handle_toggle_options left: the
\* toggle it returned and the configuration _get_chart_config resolved, or
\* the exception the handler of render turns into an error record
ChartSlot(chart, chart_key, t) ==
    [chart_key |-> chart_key,
     state_key |-> IF chart.toggle_options = <<>> THEN None
                   ELSE Val(SessionStateKey(chart_key)),
     shown |-> t.shown,
     toggle |-> IF t.result # "returned" THEN None
                ELSE IF chart.toggle_options = <<>> THEN Val("default")
                ELSE Val(t.ui.session_state[SessionStateKey(chart_key)]),
     config |-> IF t.result # "returned" THEN Raise(t.result, {})
                ELSE get_chart_config(
                         chart,
                         IF chart.toggle_options = <<>> THEN "default"
                         ELSE t.ui.session_state[SessionStateKey(chart_key)],
                         NoOverrides)]

\* the key of ROLES_360_QUERIES a chart drawn is defined under
QueryKeyOf(chart) ==
    CASE chart = TopRolesChart -> "top_roles_by_total_queries"
      [] chart = QueriesByWarehouseChart -> "queries_by_warehouse_for_role"
      [] OTHER -> "role_grants_history"

RECURSIVE CallSlots(_, _)

\* the charts of the render_multiple calls of a page from call c on, each
\* with its position in the list of its call (enumerate, line 142)
CallSlots(page, c) ==
    IF c > Len(page) THEN <<>>
    ELSE [i \in 1..Len(page[c]) |-> [chart |-> page[c][i], call |-> c, index |-> i - 1]]
             \o CallSlots(page, c + 1)

\* the charts of a page in the order they are rendered
Slots(page) == CallSlots(page, 1)

\* the key render works with for a chart render_multiple renders
SlotKey(slot) == ChartUniqueKey(Val(ContainerKey(slot.index)), QueryKeyOf(slot.chart))

RECURSIVE RunSlots(_, _, _)

\* the run goes on after a chart unless st.rerun() was called
AfterSlot(slots, drawn, t) ==
    IF t.result = "rerun"
    THEN [session_state |-> t.ui.session_state, rerun |-> TRUE, drawn |-> drawn]
    ELSE RunSlots(Tail(slots), t.ui,
                  Append(drawn, ChartSlot(Head(slots).chart, SlotKey(Head(slots)), t)))

\* one script run over the charts left
RunSlots(slots, ui, drawn) ==
    IF slots = <<>>
    THEN [session_state |-> ui.session_state, rerun |-> FALSE, drawn |-> drawn]
    ELSE AfterSlot(slots, drawn,
                   HandleToggleOptions(Head(slots).chart, SlotKey(Head(slots)), ui))

\* a script run of the page started by a click (or by None), and the run
\* st.rerun() starts after it
ScriptRuns(page, session_state, click) ==
    LET first == RunSlots(Slots(page), UiState(session_state, {}, click), <<>>)
    IN [first |-> first,
        final |-> IF first.rerun
                  THEN RunSlots(Slots(page), UiState(first.session_state, {}, None), <<>>)
                  ELSE first]

\* the most render_multiple calls of a page and the most charts of a call
MaxCalls == 2
MaxChartsPerCall == 2

ChartsDrawn == {TopRolesChart, QueriesByWarehouseChart, RoleGrantsChart}

ChartCalls == UNION {[1..n -> ChartsDrawn] : n \in 1..MaxChartsPerCall}

TogglePages == UNION {[1..n -> ChartCalls] : n \in 1..MaxCalls}

InitToggles ==
    /\ Idle
    /\ now = Noon(DaysFromCivil(2025, 3, 30))
    /\ \E page \in TogglePages : last = [op |-> "pending", page |-> page]

\* the runs have been made
Toggled(click, before, drawn_before, runs) ==
    /\ last' = [op |-> "toggles", page |-> last.page, click |-> click,
                before |-> before, drawn_before |-> drawn_before,
                clicked |-> runs.first.session_state, rerun |-> runs.first.rerun,
                session_state |-> runs.final.session_state, drawn |-> runs.final.drawn]
    /\ UNCHANGED <<now, ticks, session, cache>>

\* the page is opened in a new session
OpenTogglePage ==
    /\ last.op = "pending"
    /\ Toggled(None, <<>>, <<>>, ScriptRuns(last.page, <<>>, None))

\* the user clicks a toggle button the last run has shown
ClickToggle ==
    /\ last.op = "toggles"
    /\ \E s \in DOMAIN last.drawn :
       \E key \in last.drawn[s].shown :
           Toggled([slot |-> s, key |-> key], last.session_state, last.drawn,
                   ScriptRuns(last.page, last.session_state,
                              Val(ButtonKey(last.drawn[s].chart_key, key))))

NextToggles == OpenTogglePage \/ ClickToggle

SpecToggles == InitToggles /\ [][NextToggles]_vars

----------------------------------------------------------------------------
(* The object filter of the filter bar and the session behind it: script     *)
(* runs of lines 179-238 of render_filters, each started by an interaction,  *)
(* and direct calls of execute_query, in one process                         *)

\* the keys of object_queries (query_executor.py:154-175)
ObjectQueryTypes == {"user", "warehouse", "role", "database"}

\* UPPER(column) LIKE UPPER('%term%'): the term occurs in the value, case
\* aside, an underscore of the term standing for any one character
Like(value, search_term) ==
    \E i \in 1..(Len(value) - Len(search_term) + 1) :
        \A j \in 1..Len(search_term) :
            \/ search_term[j] = "_"
            \/ LowerChar(search_term[j]) = LowerChar(value[i + j - 1])

\* the body of get_object_values (a cache miss). answer: the names the
\* warehouse holds for the type, in order, or its failure
ObjectValuesBody(sess, connect_ok, object_type, search_term, answer) ==
    IF ~GetSession(sess, connect_ok)
    THEN [out |-> Raise("StopException", {"error"}), session |-> sess]
    ELSE IF object_type \notin ObjectQueryTypes
    THEN [out |-> Ret(<<Str_All>>, {"warning"}), session |-> "created"]
    ELSE IF answer.kind # "names"
    THEN [out |-> Ret(<<Str_All>>, {"error"}), session |-> "created"]
    ELSE [out |-> Ret(<<Str_All>>
                          \o SelectSeq(answer.names,
                                       LAMBDA v : search_term = <<>> \/ Like(v, search_term)),
                      {}),
          session |-> "created"]

\* get_object_values behind its cache (@st.cache_data(ttl=3600), line 140)
QueryExecutor_get_object_values(clock, sess, c, connect_ok, object_type, search_term, answer) ==
    LET key == <<object_type, search_term>>
        hits == CacheLookup(c, key, clock)
    IN IF hits # {}
       THEN [out |-> Ret((CHOOSE e \in hits : TRUE).table, {}), session |-> sess,
             hit |-> TRUE, cache |-> c]
       ELSE LET r == ObjectValuesBody(sess, connect_ok, object_type, search_term, answer)
            IN [out |-> r.out, session |-> r.session, hit |-> FALSE,
                cache |-> IF Returned(r.out) THEN CacheStore(c, key, r.out.val, clock)
                          ELSE c]

\* the elements of a list
Elements(list) == {list[i] : i \in DOMAIN list}

\* lines 204-205: 'All' is put first when the list lacks it
OfferedValues(object_values) ==
    IF Str_All \notin Elements(object_values) THEN <<Str_All>> \o object_values
    ELSE object_values

\* a stored value is kept whether or not it is offered
StoredAtRenderUnchecked(stored, object_values) ==
    IF stored.tag # "val" THEN Str_All ELSE stored.v

\* lines 215-218: st.session_state[session_state_key] when the select box is
\* created; stored: the entry before (Absent when the key is not set)
StoredAtRender(stored, object_values) ==
    IF stored.tag # "val" \/ stored.v \notin Elements(object_values) THEN Str_All
    ELSE stored.v

\* the widgets of the object filter between two runs: the selected type, the
\* search term typed for it, the value stored under
\* object_value_{type}_selector; values_cache: the cache of get_object_values
ObjectUi(object_type, search_term, stored, values_cache) ==
    [object_type |-> object_type, search_term |-> search_term, stored |-> stored,
     values_cache |-> values_cache]

\* lines 186-238 with the widgets holding ui, r being what get_object_values
\* left (for the type 'all' it is not called)
ObjectFilterRun(ui, r) ==
    IF ui.object_type = "all"
    THEN [called |-> FALSE, rendered |-> FALSE, ui |-> ui, object_value |-> Str_All]
    ELSE IF ~Returned(r.out)
    THEN [called |-> TRUE, rendered |-> FALSE, ui |-> ui, hit |-> r.hit, out |-> r.out]
    ELSE [called |-> TRUE, rendered |-> TRUE, hit |-> r.hit, out |-> r.out,
          offered |-> OfferedValues(r.out.val),
          stored_before |-> ui.stored,
          object_value |-> StoredAtRender(ui.stored, OfferedValues(r.out.val)),
          ui |-> [ui EXCEPT !.stored = Val(StoredAtRender(ui.stored,
                                                          OfferedValues(r.out.val))),
                            !.values_cache = r.cache]]

\* the names the warehouse holds, and its failure
ObjectAnswers ==
    {[kind |-> "names", names |-> <<<<"b", "o">>, <<"O", "b">>>>], [kind |-> "error"]}

\* the search terms typed (st.text_input(...).strip())
SearchTerms == {<<>>, <<"_", "b">>, <<"x">>}

\* the answers of the warehouse to the query: rows, or a failure
RowsOrFailure == {[kind |-> "table", table |-> CountTable(150)], [kind |-> "error"]}

\* the call of execute_query the process repeats
SessionCall(clock) == <<ConfigDict(Val(TplDates), Val(FALSE)), Val(CallerDates(clock))>>

InitObjectFilter ==
    /\ Idle
    /\ now = Noon(DaysFromCivil(2025, 3, 30))
    /\ last = [op |-> "init", ui |-> ObjectUi("user", <<>>, Absent, {})]

\* a script run with the widgets holding ui
ObjectFilterRan(event, ui, connect_ok, answer, run) ==
    /\ session' = IF run.called THEN run.out_session ELSE session
    /\ last' = [op |-> "object_filter", event |-> event, connect_ok |-> connect_ok,
                had_session |-> session = "created", run |-> run.run, ui |-> run.run.ui]
    /\ UNCHANGED <<now, ticks, cache>>

ObjectFilterRerun(event, ui, connect_ok, answer) ==
    ObjectFilterRan(event, ui, connect_ok, answer,
        LET r == QueryExecutor_get_object_values(now, session, ui.values_cache, connect_ok,
                                                 ui.object_type, ui.search_term, answer)
        IN [called |-> ui.object_type # "all", out_session |-> r.session,
            run |-> ObjectFilterRun(ui, r)])

\* the user selects an object type: the widgets of the type left are not
\* rendered in the run and their state is dropped
ChangeObjectType ==
    \E t \in ObjectTypeOptions, connect_ok \in BOOLEAN, answer \in ObjectAnswers :
        ObjectFilterRerun("object_type",
                          IF t = last.ui.object_type THEN last.ui
                          ELSE ObjectUi(t, <<>>, Absent, last.ui.values_cache),
                          connect_ok, answer)

\* the user types a search term
TypeSearchTerm ==
    /\ last.ui.object_type # "all"
    /\ \E s \in SearchTerms, connect_ok \in BOOLEAN, answer \in ObjectAnswers :
           ObjectFilterRerun("search_term", [last.ui EXCEPT !.search_term = s],
                             connect_ok, answer)

\* the user selects one of the values the select box of the last run offered
SelectOfferedValue ==
    /\ last.op = "object_filter"
    /\ last.run.rendered
    /\ \E v \in Elements(last.run.offered), connect_ok \in BOOLEAN,
          answer \in ObjectAnswers :
           ObjectFilterRerun("object_value", [last.ui EXCEPT !.stored = Val(v)],
                             connect_ok, answer)

\* a renderer or another caller runs the query, which the warehouse answers
SessionExecuteQuery ==
    \E connect_ok \in BOOLEAN, answer \in {[kind |-> "table", table |-> CountTable(150)]} :
        LET r == execute_query(now, session, cache, connect_ok, SessionCall(now)[1],
                               SessionCall(now)[2], answer)
        IN /\ session' = r.session
           /\ cache' = r.cache
           /\ last' = [op |-> "execute_query", connect_ok |-> connect_ok,
                       had_session |-> session = "created",
                       run |-> [called |-> TRUE, rendered |-> FALSE, hit |-> r.hit,
                                out |-> r.out],
                       ui |-> last.ui]
           /\ UNCHANGED <<now, ticks>>

NextObjectFilter ==
    \/ ChangeObjectType
    \/ TypeSearchTerm
    \/ SelectOfferedValue
    \/ SessionExecuteQuery

SpecObjectFilter == InitObjectFilter /\ [][NextObjectFilter]_vars

----------------------------------------------------------------------------
(* Calls of execute_query with one query over time, the warehouse answering  *)
(* with rows or failing                                                      *)

RepeatedQuery ==
    \E connect_ok \in BOOLEAN, answer \in RowsOrFailure :
        ExecuteQuery(SessionCall(now), connect_ok, answer)

NextRepeated == Tick \/ RepeatedQuery

SpecRepeated == Init /\ [][NextRepeated]_vars

----------------------------------------------------------------------------
(* Properties *)

IsDateRangeCall == last.op = "get_date_range"

KeyOf(date_filter) == IF date_filter.tag = "val" THEN date_filter.v ELSE ""

\* the pair the '7_days' key gives on the day of the call
SevenDayPair(today) == <<CivilFromDays(today - 7), CivilFromDays(today)>>

\* C4: get_date_range never throws and always returns an ordered pair
\* (start_date <= end_date), for every key and every combination of custom
\* bounds being a date or absent.
C4_NeverThrowsOrderedPair ==
    IsDateRangeCall =>
        /\ Returned(last.out)
        /\ DateStrLeq(last.out.val[1], last.out.val[2])

\* the offsets the specification documents for the fixed keys
DocumentedOffset ==
    [k \in FixedKeys |->
        CASE k = "1_day" -> 1
          [] k = "7_days" -> 7
          [] k = "14_days" -> 14
          [] k = "3_months" -> 90
          [] k = "6_months" -> 180
          [] k = "1_year" -> 365]

\* C5: for every supported key other than 'custom' the end date is the current
\* date; for 1_day, 7_days, 14_days, 3_months, 6_months and 1_year the start
\* date is the current date minus 1, 7, 14, 90, 180 and 365 days; an unknown
\* key gives the pair '7_days' gives.
C5_FixedOffsets ==
    IsDateRangeCall /\ KeyOf(last.date_filter) # "custom" =>
        LET key == KeyOf(last.date_filter) IN
        /\ Returned(last.out)
        /\ last.out.val[2] = CivilFromDays(last.today)
        /\ key \in FixedKeys =>
               last.out.val[1] = CivilFromDays(last.today - DocumentedOffset[key])
        /\ key \notin FixedKeys \cup {"1_month"} =>
               last.out.val = SevenDayPair(last.today)

\* C5 happens: a 90-day range that crosses a year boundary, and an unknown key
C5_Witness ==
    /\ IsDateRangeCall
    /\ Returned(last.out)
    /\ \/ /\ KeyOf(last.date_filter) = "3_months"
          /\ last.out.val[1][1] < last.out.val[2][1]
       \/ /\ KeyOf(last.date_filter) = "30_days"
          /\ last.out.val[1][2] # last.out.val[2][2]

\* C6: for 'custom' with start later than end, or a bound missing, the result
\* is the pair '7_days' gives and a warning is emitted; with both bounds
\* present and start <= end the supplied bounds are returned unchanged.
C6_CustomFallback ==
    IsDateRangeCall /\ KeyOf(last.date_filter) = "custom" =>
        LET cs == last.custom_start
            ce == last.custom_end
            valid == cs.tag = "val" /\ ce.tag = "val" /\ cs.v <= ce.v
        IN /\ Returned(last.out)
           /\ valid => last.out.val = <<CivilFromDays(cs.v), CivilFromDays(ce.v)>>
           /\ ~valid => /\ last.out.val = SevenDayPair(last.today)
                        /\ "warning" \in last.out.log

IsBuildParamsCall == last.op = "build_query_params"

\* the object value is 'All' in any letter case, the empty string, or None
IsAllOrEmpty(entry) ==
    \/ entry.tag = "none"
    \/ entry.tag = "val" /\ entry.v = <<>>
    \/ entry.tag = "val" /\ Len(entry.v) = 3
         /\ entry.v[1] \in {"A", "a"} /\ entry.v[2] \in {"L", "l"} /\ entry.v[3] \in {"L", "l"}

\* C7: the object-filter fragment is empty, and nothing is raised, whenever the
\* object type is 'all', the object value is 'All' (any case), empty or None,
\* the query's apply_object_filter flag is false, or the object type has no
\* column in the lookup table. Stated for the date filters whose range
\* get_date_range resolves.
C7_EmptyFragment ==
    IsBuildParamsCall /\ KeyOf(DictGetDefault(last.filters.date_filter, "7_days")) # "custom" =>
        LET f == last.filters
            flag == last.query_config.apply_object_filter
        IN (\/ f.object_type = Val("all")
            \/ IsAllOrEmpty(f.object_value)
            \/ flag = Val(FALSE)
            \/ f.object_type.tag = "val" /\ f.object_type.v \notin ColMapKeys)
           => /\ Returned(last.out)
              /\ last.out.val.object_filter = <<>>

\* the Filter State with the documented defaults in place of the absent keys
WithDefaults(f) ==
    [f EXCEPT !.date_filter = DictGetDefault(@, "7_days"),
              !.object_type = DictGetDefault(@, "all"),
              !.object_value = DictGetDefault(@, Str_All)]

\* every key of the Filter State is absent or holds a value of its type
AbsentOrValue(f) ==
    \A k \in DOMAIN f : f[k].tag \in {"absent", "val"}

\* C9: with any subset of the Filter State keys absent, _build_query_params
\* does not raise and returns what it returns with date_filter='7_days',
\* object_type='all', object_value='All' in place of the absent keys.
C9_AbsentKeysDefaults ==
    IsBuildParamsCall /\ AbsentOrValue(last.filters) =>
        /\ Returned(last.out)
        /\ last.out.val =
               build_query_params(Noon(last.today), WithDefaults(last.filters),
                                  last.query_config).val

IsExecuteCall == last.op = "execute_query"

\* the SQL text cannot be produced: the template is missing or names a
\* placeholder that is not substituted
TemplateFails(query_config) ==
    \/ query_config.type = "dict" /\ query_config.query.tag # "val"
    \/ query_config.type = "dict" /\ query_config.query.tag = "val"
         /\ ~(Placeholders(query_config.query.v) \subseteq {"start_date", "end_date", "user_filter"})

\* C2: execute_query never raises to its caller: for a missing template, a
\* template whose placeholders cannot all be substituted, a query_config of
\* the shape the renderers pass, and a warehouse or session failure it
\* returns, and on a failure the table is empty and the failure is logged.
\* Stated for the calls in which a warehouse session exists or is created.
C2_NeverRaises ==
    IsExecuteCall /\ (last.had_session \/ last.connect_ok) =>
        /\ Returned(last.out)
        /\ (TemplateFails(last.query_config) \/ last.answer.kind # "table") =>
               /\ IsEmpty(last.out.val)
               /\ "error" \in last.out.log

\* C3: when the cache holds a table computed for the same (query_config,
\* filters) pair less than one hour ago, the call returns that table and no
\* SQL is sent to the warehouse; when the table is more than one hour old the
\* call runs again and, for a pair with a template, queries the warehouse.
C3_Memoization ==
    IsExecuteCall =>
        \A p \in last.prior :
            /\ p.age < 3600 =>
                   /\ last.hit
                   /\ last.out = Ret(p.table, {})
                   /\ last.sent = <<>>
            /\ p.age > 3600 =>
                   /\ ~last.hit
                   /\ last.query_config.query.tag = "val" => Len(last.sent) = 1

\* C3 happens: a table stored half an hour ago is returned although the
\* warehouse would now answer with another table
C3_Witness ==
    /\ IsExecuteCall
    /\ last.hit
    /\ last.answer.kind = "table"
    /\ \E p \in last.prior :
           /\ p.age > 0
           /\ p.age < 3600
           /\ ~IsEmpty(p.table)
           /\ p.table # last.answer.table
           /\ last.out.val = p.table

\* the value a SQL string literal body denotes: '' is one quote; a single
\* quote ends the literal
RECURSIVE LiteralValue(_)
LiteralValue(body) ==
    IF body = <<>> THEN <<>>
    ELSE IF Head(body) # "'" THEN <<Head(body)>> \o LiteralValue(Tail(body))
    ELSE IF Len(body) >= 2 /\ body[2] = "'" THEN <<"'">> \o LiteralValue(SubSeq(body, 3, Len(body)))
    ELSE <<"<literal ends>">> \o LiteralValue(Tail(body))

\* text is AND <column> = '<body>' with a body that denotes value
IsFilterOn(text, column, value) ==
    /\ Len(text) >= 5
    /\ SubSeq(text, 1, 4) = <<"AND ", column, " = ", "'">>
    /\ text[Len(text)] = "'"
    /\ LiteralValue(SubSeq(text, 5, Len(text) - 1)) = value

\* the text that execute_query substituted for {user_filter}: TplUser ends with
\* it, and it starts at the first AND of the text
SentUserFilter ==
    LET sql == last.sent[1]
        first == CHOOSE i \in 1..Len(sql) : sql[i] = "AND " /\ \A j \in 1..(i - 1) : sql[j] # "AND "
    IN SubSeq(sql, first, Len(sql))

\* C8: every SQL text that embeds a selected object value has the form
\* AND <column> = '<value>' with the lookup-table column of the object type
\* and every single quote of the value doubled: the object filter built by
\* _build_query_params, and the user filter execute_query builds itself.
C8_QuotesDoubled ==
    /\ IsBuildParamsCall /\ Returned(last.out) /\ last.out.val.object_filter # <<>> =>
           IsFilterOn(last.out.val.object_filter, ColMap(last.filters.object_type.v),
                      Strip(last.filters.object_value.v))
    /\ (/\ IsExecuteCall
        /\ last.sent # <<>>
        /\ last.query_config.query = Val(TplUser)
        /\ last.query_config.apply_object_filter = Val(TRUE)
        /\ last.filters.tag = "val"
        /\ last.filters.v.object_type = Val("user")
        /\ last.filters.v.object_value.tag = "val"
        /\ last.filters.v.object_value.v \notin {<<>>, Str_All})
       => IsFilterOn(SentUserFilter, "USER_NAME", last.filters.v.object_value.v)

IsRenderCall == last.op = "render"

\* the render reached execute_query with a session at hand: the key is in
\* the store, the date filter is a fixed one and the object value is a string
RenderReachesWarehouse ==
    /\ IsRenderCall
    /\ last.query_key.tag = "val" /\ last.query_key.v \in DOMAIN QueryStore
    /\ QueryStore[last.query_key.v].query.tag = "val"
    /\ last.had_session \/ last.connect_ok
    /\ last.filters # NotAMapping
    /\ KeyOf(DictGetDefault(last.filters.date_filter, "7_days")) # "custom"

\* the Filter State selects a concrete object
ConcreteSelection(f) ==
    /\ f.object_type.tag = "val" /\ f.object_type.v \in ColMapKeys
    /\ f.object_value.tag = "val" /\ ~IsAllOrEmpty(f.object_value)

\* the texts that may stand for the template's filter placeholder: the
\* builder's fragment for a concrete selection on a filtered query, and
\* otherwise a text that adds no restriction
ExpectedFragments(f, query_config) ==
    IF ConcreteSelection(f) /\ query_config.apply_object_filter = Val(TRUE)
    THEN {FilterClause(ColMap(f.object_type.v), ReplaceQuote(Strip(f.object_value.v)))}
    ELSE {<<>>, <<"AND 1=1">>}

\* C1: a render with a concrete selection on a Query Definition with
\* apply_object_filter true sends SQL in which the builder's fragment
\* AND <column> = '<escaped value>' stands for the template's filter
\* placeholder; without a concrete selection the placeholder is replaced by
\* text that adds no restriction; every named placeholder of the template is
\* substituted.
C1_RenderSubstitutesFilter ==
    RenderReachesWarehouse =>
        LET query_config == QueryStore[last.query_key.v]
            range == get_date_range(Noon(last.today),
                                    DictGetDefault(last.filters.date_filter, "7_days"),
                                    None, None).val
        IN /\ Len(last.sent) >= 1
           /\ \E fragment \in ExpectedFragments(last.filters, query_config) :
                  last.sent[1] =
                      Splice(query_config.query.v,
                             [start_date |-> DateText(range[1]),
                              end_date |-> DateText(range[2]),
                              object_filter |-> fragment,
                              user_filter |-> fragment])

\* C10: a metric render with a delta_query_key of the query store, a current
\* value of 150 and a prior-period value of 100 returns a success-shaped
\* record whose delta is the percent change with sign, one decimal and '%':
\* '+50.0%'.
C10_DeltaPercent ==
    (/\ RenderReachesWarehouse
     /\ last.renderer = "metric"
     /\ last.delta_query_key = last.query_key
     /\ last.answer = [kind |-> "table", table |-> CountTable(150)]
     /\ last.answer_previous = [kind |-> "table", table |-> CountTable(100)])
    => /\ Returned(last.out)
       /\ "value" \in DOMAIN last.out.val
       /\ last.out.val.delta = Val(<<"+", "5", "0", ".", "0", "%">>)

IsDeltaCall == last.op = "delta"

\* the number a formatted value stands for, as the delta calculation reads it
ParsedNumber(text) == parse_formatted_value(Val(text))

IsZero(parsed) == parsed.tag = "val" /\ parsed.v.m = 0
IsNonzero(parsed) == parsed.tag = "val" /\ parsed.v.m # 0

\* C11: in the delta calculation of MetricRenderer.render, when the
\* prior-period value parses to zero and the current value parses to a
\* nonzero number, the delta is the current value with a leading '+' and the
\* label '(new)', and is no percentage string.
C11_NewDeltaOnZeroPrior ==
    (IsDeltaCall /\ IsZero(ParsedNumber(last.comparison_value))
                 /\ IsNonzero(ParsedNumber(last.value)))
    => /\ last.delta_value.tag = "val"
       /\ Head(last.delta_value.v) = "+"
       /\ last.delta_value.v[Len(last.delta_value.v)] = "(new)"
       /\ \A i \in 1..Len(last.delta_value.v) : last.delta_value.v[i] # "%"
       /\ ParsedNumber(SubSeq(last.delta_value.v, 2, Len(last.delta_value.v) - 2))
              = ParsedNumber(format_number(ParsedNumber(last.value).v))

\* C11 happens: a current value of 50 against a prior value of 0 gives '+50 (new)'
C11_Witness ==
    /\ IsDeltaCall
    /\ last.value = <<"5", "0">>
    /\ last.comparison_value = <<"0">>
    /\ last.delta_value = Val(<<"+", "5", "0", " ", "(new)">>)

IsExtractParseCall == last.op = "extract_parse"

\* the last displayed digit of a formatted value is worth this much
DisplayUnit(x, format_type) ==
    CASE format_type = "number" ->
             (IF AtLeastPow10(x, 9) THEN [m |-> 1, e |-> 8]
              ELSE IF AtLeastPow10(x, 6) THEN [m |-> 1, e |-> 5]
              ELSE IF AtLeastPow10(x, 3) THEN [m |-> 1, e |-> 2]
              ELSE [m |-> 1, e |-> -2])
      [] format_type = "percentage" -> [m |-> 1, e |-> -1]
      [] format_type = "currency" -> [m |-> 1, e |-> -2]
      [] format_type = "duration" ->
             (IF AtLeastInt(x, 3600) THEN [m |-> 36, e |-> 1]
              ELSE IF AtLeastInt(x, 60) THEN [m |-> 6, e |-> 0]
              ELSE [m |-> 1, e |-> -1])

\* a and b differ by at most half of unit
WithinHalf(a, b, unit) ==
    LET e == Min(Min(a.e, b.e), unit.e)
    IN 2 * Abs(a.m * Pow10(a.e - e) - b.m * Pow10(b.e - e)) <= unit.m * Pow10(unit.e - e)

\* C13: for every numeric value v and every format in {number, percentage,
\* currency, duration}, _parse_formatted_value applied to the string
\* _extract_metric_value produces for v gives v up to the display rounding
\* (half of the last displayed digit), for every suffix B, M, K, h, m
\* (minutes) and s, the '$' prefix, the '%' suffix and comma separators.
C13_FormatParseRoundTrip ==
    (/\ IsExtractParseCall
     /\ last.format_type \in FormatTypes
     /\ ~IsEmpty(last.df)
     /\ last.df.rows[1][1].kind = "num")
    => /\ last.parsed.tag = "val"
       /\ WithinHalf(last.parsed.v, last.df.rows[1][1].v,
                     DisplayUnit(last.df.rows[1][1].v, last.format_type))

\* a record is success-shaped for a metric: no 'error', and 'label',
\* 'description' and 'value'
IsMetricSuccess(record) ==
    /\ "error" \notin DOMAIN record
    /\ {"label", "description", "value"} \subseteq DOMAIN record

\* a record is success-shaped for a chart: no 'error', and 'label',
\* 'description' and 'figure'
IsChartSuccess(record) ==
    /\ "error" \notin DOMAIN record
    /\ {"label", "description", "figure"} \subseteq DOMAIN record

\* a record is error-shaped: 'error' and 'label', and neither 'value' nor 'figure'
IsErrorShaped(record) ==
    /\ {"error", "label"} \subseteq DOMAIN record
    /\ DOMAIN record \cap {"value", "figure"} = {}

\* C12: a metric render with a delta_query_key of the store returns a
\* success-shaped record with delta None, and no error-shaped record, when
\* both values are zero, when the current value is the 'N/A' of an empty
\* table, and when the prior-period table is empty.
C12_NoDeltaStaysSuccess ==
    (/\ RenderReachesWarehouse
     /\ last.renderer = "metric"
     /\ last.delta_query_key = last.query_key
     /\ last.answer.kind = "table"
     /\ \/ last.answer.table = CountTable(0) /\ last.answer_previous.table = CountTable(0)
        \/ last.answer.table = EmptyTable /\ last.answer_previous.table = CountTable(100)
        \/ last.answer_previous.table = EmptyTable)
    => /\ Returned(last.out)
       /\ IsMetricSuccess(last.out.val)
       /\ last.out.val.delta = None

IsChartConfigCall == last.op = "get_chart_config"

\* the toggle variant selected: the fields of the variant named current_toggle
\* when it is not 'default' and the definition has it
SelectedVariants(chart, current_toggle) ==
    {chart.toggle_options[i].config :
        i \in {j \in DOMAIN chart.toggle_options :
                  /\ current_toggle # "default"
                  /\ chart.toggle_options[j].key = current_toggle}}

\* the value the precedence gives a chart field: the override, else the
\* selected variant's, else the base definition's (None when no one defines it)
ByPrecedence(chart, current_toggle, overrides, f) ==
    IF overrides[f] # None THEN {overrides[f]}
    ELSE IF \E v \in SelectedVariants(chart, current_toggle) : v[f].tag = "val"
    THEN {v[f] : v \in SelectedVariants(chart, current_toggle)}
    ELSE IF chart[f].tag = "val" THEN {chart[f]}
    ELSE {None, Val("bar"), Val({})}

\* C14: _get_chart_config returns, without raising, a configuration whose
\* every chart field is the non-null override, else the value of the selected
\* toggle variant that defines it, else the base definition's value; base
\* {bar, x A}, toggle {y B} and override {line} resolve to {line, x A, y B}.
C14_ChartConfigPrecedence ==
    IsChartConfigCall
    => /\ Returned(last.out)
       /\ \A f \in ChartFields :
              last.out.val[f] \in ByPrecedence(last.chart, last.current_toggle,
                                               last.overrides, f)
       /\ (/\ last.chart = ChartDefinition(Val("bar"), Val("A"), Absent, Absent, Absent,
                                           Absent, <<ToggleByB>>)
           /\ last.current_toggle = "by_b"
           /\ last.overrides = ChartFieldValues(Val("line"), None, None, None, None, None))
          => /\ last.out.val.chart_type = Val("line")
             /\ last.out.val.x_col = Val("A")
             /\ last.out.val.y_col = Val("B")

IsCreateChartCall == last.op = "create_chart"

\* the x, y, value and color column a configuration declares
DeclaredCols(config) ==
    {config[f].v : f \in {g \in {"x_col", "y_col", "value_col", "color_col"} :
                             config[g].tag = "val"}}

\* C15: when a declared x, y, value or color column of the resolved
\* configuration is not a column of the Result Table, the chart's record is
\* error-shaped and no plotly call was handed the missing column; hover
\* columns that are missing are dropped and do not make the record
\* error-shaped (the record has the shape it has without hover columns).
C15_MissingColumnIsError ==
    IsCreateChartCall
    => /\ (DeclaredCols(last.config) \ last.columns # {})
          => /\ IsErrorShaped(last.record)
             /\ last.created.plotted \cap (DeclaredCols(last.config) \ last.columns) = {}
       /\ (DeclaredCols(last.config) \subseteq last.columns)
          => /\ IsErrorShaped(last.record)
                 <=> "error" \in DOMAIN create_chart(
                                            last.df,
                                            [last.config EXCEPT !.hover_data = Val({})]).result
             /\ IsChartSuccess(last.record)
                 => last.record.figure.hover_data = last.config.hover_data.v \cap last.columns

\* the render was given a key the store does not hold or that is no string
UnknownKey == ~(last.query_key.tag = "val" /\ last.query_key.v \in DOMAIN QueryStore)

\* C16: every record MetricRenderer.render or ChartRenderer.render returns is
\* error-shaped ('error' and 'label', no 'value' or 'figure') or
\* success-shaped for its renderer (no 'error'; 'label', 'description' and
\* 'value' for a metric, 'figure' for a chart); none is partially populated.
C16_RecordShapes ==
    (IsRenderCall /\ Returned(last.out))
    => \/ IsErrorShaped(last.out.val)
       \/ last.renderer = "metric" /\ IsMetricSuccess(last.out.val)
       \/ last.renderer = "chart" /\ IsChartSuccess(last.out.val)

\* a render of a key of the store has returned a record
C16_Witness ==
    /\ IsRenderCall
    /\ Returned(last.out)
    /\ ~UnknownKey
    /\ IsErrorShaped(last.out.val)

\* C17: neither render raises past the rendering boundary: it returns, and
\* for an unknown or non-string key, a Query Definition without 'query', a
\* Filter State that is not a mapping or a failing executor the record is
\* error-shaped; for an unknown key nothing is sent to the warehouse.
C17_NeverRaisesPastBoundary ==
    IsRenderCall
    => /\ Returned(last.out)
       /\ (\/ UnknownKey
           \/ QueryStore[last.query_key.v].query.tag = "absent"
           \/ last.filters = NotAMapping
           \/ last.answer.kind = "error"
           \/ ~(last.had_session \/ last.connect_ok))
          => IsErrorShaped(last.out.val)
       /\ UnknownKey => last.sent = <<>>

IsRenderMultipleCall == last.op = "render_multiple"

\* C18: render_multiple returns one record for each item that is a string or
\* a mapping, in input order, and the record of an item is the one the item
\* gets without its siblings, whether or not a sibling fails.
C18_SiblingIsolation ==
    IsRenderMultipleCall
    => /\ Returned(last.out)
       /\ Len(last.out.val) = Len(StrOrDict(last.configs))
       /\ Len(last.out.val) = Len(last.alone)
       /\ \A i \in 1..Len(last.alone) :
              /\ Returned(last.alone[i])
              /\ last.out.val[i] = last.alone[i].val[1]

IsAfterQueryCall == last.op = "after_query"

\* C19: an empty Result Table is reported by its cause: when the query ran
\* without error and gave no rows the record carries the 'no data' message
\* with the metric's or chart's label; when the execution failed the record
\* carries an execution-error message of the last-error side channel and not
\* the 'no data' message.
C19_EmptyTableByCause ==
    (/\ IsAfterQueryCall
     /\ Returned(last.executed.out)
     /\ IsEmpty(last.executed.out.val))
    => /\ Returned(last.out)
       /\ IsErrorShaped(last.out.val)
       /\ last.out.val.label = last.current_label
       /\ (last.answer.kind = "table") => last.out.val.error = <<"no data">>
       /\ (last.answer.kind = "error") => last.out.val.error # <<"no data">>

IsFiltersRun == last.op = "filters"

\* C20: on every UI interaction render_filters returns the Filter State it
\* built, a mapping that holds date_filter, object_type and object_value, and
\* custom_start and custom_end when the date filter is 'custom', and the page
\* passes that mapping on to the renderers.
C20_FiltersReturned ==
    (IsFiltersRun /\ Returned(last.out))
    => /\ last.out.val # NotAMapping
       /\ last.out.val = last.built
       /\ \A k \in {"date_filter", "object_type", "object_value"} :
              last.out.val[k].tag = "val"
       /\ last.out.val.date_filter = Val("custom")
              => last.out.val.custom_start.tag = "val" /\ last.out.val.custom_end.tag = "val"
       /\ last.passed = Ret(last.out.val, {})

\* the number of days of a calendar month
DaysInMonthOf(y, m) ==
    IF m = 2
    THEN IF (y % 4 = 0 /\ y % 100 # 0) \/ y % 400 = 0 THEN 29 ELSE 28
    ELSE IF m \in {4, 6, 9, 11} THEN 30 ELSE 31

\* the calendar month before month m of year y
MonthBefore(y, m) == IF m = 1 THEN <<y - 1, 12>> ELSE <<y, m - 1>>

\* C22: for '1_month', end_date is the current date and start_date is the day
\* min(current day, length of the preceding month) of the preceding calendar
\* month (December of the previous year in January), a valid calendar date
\* earlier than end_date.
C22_OneMonthClamped ==
    (IsDateRangeCall /\ KeyOf(last.date_filter) = "1_month")
    => /\ Returned(last.out)
       /\ last.out.val[2] = CivilFromDays(last.today)
       /\ last.out.val[1][1] = MonthBefore(last.out.val[2][1], last.out.val[2][2])[1]
       /\ last.out.val[1][2] = MonthBefore(last.out.val[2][1], last.out.val[2][2])[2]
       /\ last.out.val[1][3]
              = Min(last.out.val[2][3],
                    DaysInMonthOf(last.out.val[1][1], last.out.val[1][2]))
       /\ last.out.val[1][3] \in 1..DaysInMonthOf(last.out.val[1][1], last.out.val[1][2])
       /\ DaysFromCivil(last.out.val[1][1], last.out.val[1][2], last.out.val[1][3])
              < last.today

\* C22 happens: the day was clamped to the end of a shorter month, and a
\* January date went back to December of the previous year
C22_Witness ==
    /\ IsDateRangeCall
    /\ KeyOf(last.date_filter) = "1_month"
    /\ Returned(last.out)
    /\ \/ last.out.val[1][3] < last.out.val[2][3]
       \/ last.out.val[2][2] = 1 /\ last.out.val[1][1] = last.out.val[2][1] - 1

IsPreviousPeriodCall == last.op = "previous_period"

\* C23: the Query Parameters of the delta query run from
\* prev_start = prev_end - (current_end - current_start) to
\* prev_end = current_start - 1 day, the period of the same duration right
\* before the current one, for every date-range key.
C23_PreviousPeriodParams ==
    IsPreviousPeriodCall
    => /\ Returned(last.out)
       /\ Returned(last.current)
       /\ Strptime(last.out.val.end_date) = Strptime(last.current.val.start_date) - 1
       /\ Strptime(last.out.val.end_date) - Strptime(last.out.val.start_date)
              = Strptime(last.current.val.end_date) - Strptime(last.current.val.start_date)
       /\ Strptime(last.out.val.end_date) < Strptime(last.current.val.start_date)

\* C24: _extract_metric_value takes the first row's value of the first
\* column, in column order, whose type is numeric, and of the first column
\* when no column is numeric; an empty table and a null value give 'N/A'; a
\* value float() rejects is returned as its own text; a number is formatted
\* as it would be were it the only cell of the table
IsExtractCall == last.op = "extract_parse"

NumericColumns(df) == {i \in 1..Len(df.columns) : df.columns[i].numeric}

FirstOf(indices) == CHOOSE i \in indices : \A j \in indices : i <= j

C24_ExtractFirstNumericColumn ==
    IsExtractCall =>
        IF IsEmpty(last.df) THEN last.value = Str_NA
        ELSE LET picked == IF NumericColumns(last.df) # {}
                           THEN last.df.rows[1][FirstOf(NumericColumns(last.df))]
                           ELSE last.df.rows[1][1]
             IN /\ picked.kind = "null" => last.value = Str_NA
                /\ (picked.kind = "text" /\ ParseFloat(Strip(picked.s)) = None)
                       => last.value = picked.s
                /\ picked.kind = "num"
                       => last.value
                              = extract_metric_value(OneCellTable(picked), last.format_type)

\* C24 witness: the total of a table whose first column is text was extracted
C24_Witness ==
    /\ IsExtractCall
    /\ last.df = NamedTotalsTable(NumCell(Dec(1500)))
    /\ last.format_type = "number"
    /\ last.value = <<"1", ".", "5", "K">>

\* C25: _format_number scales by magnitude (one decimal and 'B' from 1e9,
\* 'M' from 1e6, 'K' from 1e3), groups an integer below 1000 with commas,
\* shows a non-integer with at most 2 decimals and trailing zeros trimmed,
\* and gives '0' for zero; the number in front of a K or M suffix is below
\* 1000, and an output without suffix shows a magnitude below 1000
IsFormatNumberCall ==
    /\ last.op = "extract_parse"
    /\ last.format_type = "number"
    /\ last.df \in {OneCellTable(NumCell(x)) : x \in MetricNumbers \cup NumberFormatOnly}

\* the number an output shows in front of its suffix, if it has one
ShownNumber(text) ==
    IF text[Len(text)] \in {"B", "M", "K"}
    THEN ParseFloat(RemoveChars(SubSeq(text, 1, Len(text) - 1), {","}))
    ELSE ParseFloat(RemoveChars(text, {","}))

C25_FormatNumberScaling ==
    IsFormatNumberCall =>
        LET x == last.df.rows[1][1].v
            shown == ShownNumber(last.value)
        IN /\ x.m = 0 => last.value = <<"0">>
           /\ AtLeastPow10(x, 9) => last.value = Fixed(Shift(x, -9), 1, FALSE) \o <<"B">>
           /\ (AtLeastPow10(x, 6) /\ ~AtLeastPow10(x, 9))
                  => last.value = Fixed(Shift(x, -6), 1, FALSE) \o <<"M">>
           /\ (AtLeastPow10(x, 3) /\ ~AtLeastPow10(x, 6))
                  => last.value = Fixed(Shift(x, -3), 1, FALSE) \o <<"K">>
           /\ (x.m # 0 /\ ~AtLeastPow10(x, 3) /\ IsWhole(x))
                  => last.value = Fixed(x, 0, TRUE)
           /\ (~AtLeastPow10(x, 3) /\ ~IsWhole(x))
                  => last.value = RStripChar(RStripChar(Fixed(x, 2, TRUE), "0"), ".")
           /\ shown.tag = "val"
           /\ last.value[Len(last.value)] # "B" => ~AtLeastPow10(shown.v, 3)

\* C21: a page render is never aborted by the failure of one metric or
\* chart: once the filter bar is shown, each page function goes on through
\* its metric grid and its chart section, whatever the Filter State and the
\* outcome of the queries, with at worst an inline error in the failing slot
IsPageRun == last.op = "page"

C21_PageNeverAborted ==
    (IsPageRun /\ "filter_bar" \in DOMAIN last /\ last.filter_bar)
        => last.at \notin {"aborted", "stopped"}

\* C26: clicking the toggle that is already selected leaves the stored toggle
\* unchanged and triggers no rerun; clicking a different toggle stores that
\* toggle and triggers a rerun, and the chart drawn after the rerun uses the
\* configuration resolved for the new toggle; after any sequence of clicks
\* the stored toggle of a chart that declares toggle options is one of its
\* declared toggle keys
IsTogglesRun == last.op = "toggles"

IsToggleClick == IsTogglesRun /\ last.click # None

\* the configuration of a chart under a toggle, render giving no override
ResolvedFor(chart, toggle) ==
    ApplyOverrides(ApplyToggle(BaseConfig(chart), chart.toggle_options, toggle), NoOverrides)

ClickedSelected ==
    last.before[SessionStateKey(SlotKey(Slots(last.page)[last.click.slot]))] = last.click.key

C26_ToggleSelection ==
    /\ (IsToggleClick /\ ClickedSelected) =>
           /\ last.clicked = last.before
           /\ ~last.rerun
    /\ (IsToggleClick /\ ~ClickedSelected) =>
           /\ last.clicked[SessionStateKey(SlotKey(Slots(last.page)[last.click.slot]))]
                  = last.click.key
           /\ last.rerun
           /\ last.drawn[last.click.slot].config
                  = Ret(ResolvedFor(Slots(last.page)[last.click.slot].chart,
                                    last.click.key), {})
    /\ IsTogglesRun =>
           \A s \in DOMAIN Slots(last.page) :
               (/\ Slots(last.page)[s].chart.toggle_options # <<>>
                /\ SessionStateKey(SlotKey(Slots(last.page)[s])) \in DOMAIN last.session_state)
                   => last.session_state[SessionStateKey(SlotKey(Slots(last.page)[s]))]
                          \in ToggleKeys(Slots(last.page)[s].chart.toggle_options)

\* C27: within one page render two distinct charts, charts of different
\* render_multiple calls included, never use the same toggle-state key, and
\* selecting a toggle on one chart changes neither the selected toggle nor
\* the resolved configuration of another chart
C27_ToggleStatePerChart ==
    /\ IsTogglesRun =>
           \A s \in DOMAIN last.drawn, t \in DOMAIN last.drawn :
               (s # t /\ last.drawn[s].state_key # None)
                   => last.drawn[s].state_key # last.drawn[t].state_key
    /\ IsToggleClick =>
           \A t \in DOMAIN last.drawn :
               (t # last.click.slot /\ t \in DOMAIN last.drawn_before)
                   => /\ last.drawn[t].toggle = last.drawn_before[t].toggle
                      /\ last.drawn[t].config = last.drawn_before[t].config
\* C28: across any sequence of execute_query and get_object_values calls in
\* one process the session is created at most once, only when the first call
\* that needs it runs and not at construction, and every later call uses it
Stopped(out) == ~Returned(out) /\ out.exc = "StopException"

IsSessionCall == last.op \in {"execute_query", "object_filter"} /\ last.run.called

C28_SessionCreatedOnce ==
    /\ [](last.op = "init" => session = "none")
    /\ [][session = "created" => session' = "created"]_vars
    /\ [][(session = "none" /\ session' = "created")
              => (last'.op \in {"execute_query", "object_filter"}
                  /\ last'.run.called /\ ~last'.run.hit)]_vars
    /\ []((IsSessionCall /\ last.had_session)
              => (~Stopped(last.run.out) /\ session = "created"))

\* C28 witness: a call that missed the cache used the session made by an
\* earlier call, at a moment no new session could have been made
C28_Witness ==
    /\ IsSessionCall
    /\ last.had_session
    /\ ~last.run.hit
    /\ ~last.connect_ok
    /\ Returned(last.run.out)

\* C30: when the select box of the object value is rendered, the value
\* stored for the current object type is one of the values offered; a stored
\* value that is not offered any more has been reset to 'All'; 'All' is
\* always offered
IsSelectBoxRendered == last.op = "object_filter" /\ last.run.rendered

C30_StoredValueOffered ==
    IsSelectBoxRendered =>
        /\ last.ui.stored.tag = "val"
        /\ last.ui.stored.v \in Elements(last.run.offered)
        /\ last.run.object_value = last.ui.stored.v
        /\ Str_All \in Elements(last.run.offered)
        /\ (/\ last.run.stored_before.tag = "val"
            /\ last.run.stored_before.v \notin Elements(last.run.offered))
               => last.ui.stored.v = Str_All

\* C30 witness: a search term took the selected value off the list and the
\* stored value was reset
C30_Witness ==
    /\ IsSelectBoxRendered
    /\ last.event = "search_term"
    /\ last.run.stored_before = Val(<<"b", "o">>)
    /\ <<"b", "o">> \notin Elements(last.run.offered)
    /\ last.ui.stored = Val(Str_All)

\* C29: the empty table execute_query returns because the warehouse raised
\* on a formatted query is memoized like a result: it is stored, an identical
\* call within the TTL returns it without contacting the warehouse, and once
\* the entry has expired the call runs again
IsRepeatedCall == last.op = "execute_query" /\ last.query_config = SessionCall(now)[1]

C29_FailureMemoized ==
    IsRepeatedCall =>
        /\ (~last.hit /\ last.answer.kind = "error" /\ Returned(last.out)) =>
               /\ last.out.val = EmptyTable
               /\ Len(last.sent) = 1
               /\ \E e \in cache : /\ e.key = <<last.query_config, last.filters>>
                                     /\ e.table = EmptyTable
        /\ (\E p \in last.prior : p.table = EmptyTable /\ p.age < TTL) =>
               /\ last.hit
               /\ last.sent = <<>>
               /\ last.out = Ret(EmptyTable, {})
        /\ (last.prior # {} /\ \A p \in last.prior : p.age >= TTL) => ~last.hit

\* C29 witness: the empty table a failure left half an hour ago is returned
\* although the warehouse would now answer with rows
C29_Witness ==
    /\ IsRepeatedCall
    /\ last.hit
    /\ last.answer = [kind |-> "table", table |-> CountTable(150)]
    /\ \E p \in last.prior : p.table = EmptyTable /\ p.age = TickSeconds
    /\ last.out = Ret(EmptyTable, {})

====
